---- MODULE Spec2Model ----
(***************************************************************************)
(* depasswd: stateless password derivation.                                *)
(*                                                                         *)
(* Strings are modelled as sequences of bytes (their UTF-8 encoding), so   *)
(* that String::len() is Len and slicing works on byte offsets as in Rust. *)
(* A Result<T, E> is the record [ok, val, err].                            *)
(***************************************************************************)
EXTENDS Integers, Sequences, FiniteSets, TLC

VARIABLES
    pc,              \* position of DerivePassRunner::run / of the S3 unit test
    input,           \* the UserInputProvider handed to the current invocation
    master_secret,   \* local of run: Result of MasterSecret::new   (NoValue before S1)
    service_secret,  \* local of run: Result of ServiceSecret::new  (NoValue before S2)
    result,          \* what the current invocation returned        (NoValue until then)
    trace,           \* the stages the current invocation has executed, in order
    calls,           \* history: number of invocations started so far
    seen,            \* history: one earlier, completed invocation and the invocations since
    call             \* unit level: the last constructor / helper call and what it returned

vars == <<pc, input, master_secret, service_secret, result, trace, calls, seen, call>>

pipelineVars == <<pc, input, master_secret, service_secret, result, trace, calls, seen>>

NoValue == [ok |-> FALSE, val |-> <<>>, err |-> "NoValue", msg |-> ""]

Ok(v) == [ok |-> TRUE, val |-> v, err |-> "none", msg |-> ""]

\* Err(e) of error type e, with its message or variant m
Err(e, m) == [ok |-> FALSE, val |-> <<>>, err |-> e, msg |-> m]

(***************************************************************************)
(* Bounds of the model.                                                    *)
(***************************************************************************)
\* user ids and master passwords of 0..MaxIdLen bytes are tried
MaxIdLen == 47

\* hex strings of 0..MaxHexWindows two-character windows are tried
MaxHexWindows == 65

\* number of invocations of run in one behaviour
MaxCalls == 4

(***************************************************************************)
(* Preset alphabets (lib.rs), as ASCII codes.                              *)
(***************************************************************************)
SPECIAL_CHARS ==
    <<33, 34, 35, 36, 37, 38, 39, 40, 41, 42, 43, 44, 45, 46, 47, 58,
      59, 60, 61, 62, 63, 64, 91, 92, 93, 94, 95, 96, 123, 124, 125, 126>>

SMALL_LETTERS == [i \in 1..26 |-> 96 + i]

NUMBERS == [i \in 1..10 |-> 47 + i]

CAPITAL_LETTERS == [i \in 1..26 |-> 64 + i]

(***************************************************************************)
(* Generic string helpers.                                                 *)
(***************************************************************************)
\* the string made of n copies of the window w
Repeat(w, n) == [i \in 1..(n * Len(w)) |-> w[((i - 1) % Len(w)) + 1]]

\* s with the bytes from position p on overwritten by w
Overwrite(s, p, w) ==
    [i \in 1..Len(s) |-> IF i >= p /\ i < p + Len(w) THEN w[i - p + 1] ELSE s[i]]

\* usize::to_string / u8::to_string: decimal, no sign, no leading zeros
RECURSIVE to_string(_)
to_string(n) ==
    IF n < 10 THEN <<48 + n>> ELSE to_string(n \div 10) \o <<48 + (n % 10)>>

\* char::to_digit(radix): the digit's value, or -1
to_digit(c, radix) ==
    LET v == IF c >= 48 /\ c <= 57 THEN c - 48
             ELSE IF c >= 97 /\ c <= 122 THEN c - 97 + 10
             ELSE IF c >= 65 /\ c <= 90 THEN c - 65 + 10
             ELSE -1
    IN IF v >= 0 /\ v < radix THEN v ELSE -1

\* the digit loop of core::num from_str_radix, with checked arithmetic
RECURSIVE parse_digits(_, _, _, _, _)
parse_digits(digits, i, acc, radix, max) ==
    IF i > Len(digits) THEN Ok(acc)
    ELSE LET d == to_digit(digits[i], radix)
         IN IF d < 0 THEN Err("ParseIntError", "InvalidDigit")
            ELSE IF acc > (max - d) \div radix THEN Err("ParseIntError", "PosOverflow")
            ELSE parse_digits(digits, i + 1, acc * radix + d, radix, max)

\* <unsigned>::from_str_radix: an optional '+', then digits; '-' is no sign here
from_str_radix(s, radix, max) ==
    IF Len(s) = 0 THEN Err("ParseIntError", "Empty")
    ELSE IF Len(s) = 1 /\ s[1] \in {43, 45} THEN Err("ParseIntError", "InvalidDigit")
    ELSE parse_digits(IF s[1] = 43 THEN Tail(s) ELSE s, 1, 0, radix, max)

U8Max == 255

\* str::is_char_boundary at 0-based byte offset i
is_char_boundary(s, i) ==
    \/ i = 0
    \/ i = Len(s)
    \/ i < Len(s) /\ ~(s[i + 1] >= 128 /\ s[i + 1] < 192)

(***************************************************************************)
(* utils.rs                                                                *)
(***************************************************************************)
\* one digit of format!("{:02x}")
HexDigit(v) == IF v < 10 THEN 48 + v ELSE 97 + (v - 10)

\* Utils::bytes_to_hex: format!("{:02x}") per byte, joined
bytes_to_hex(b) ==
    [i \in 1..(2 * Len(b)) |->
        IF i % 2 = 1 THEN HexDigit(b[(i + 1) \div 2] \div 16)
                     ELSE HexDigit(b[i \div 2] % 16)]

\* one window of hex_to_bytes: s.get(i..i+2).and_then(u8::from_str_radix(_, 16).ok())
hex_window(s, i) ==
    IF is_char_boundary(s, i) /\ is_char_boundary(s, i + 2)
    THEN from_str_radix(<<s[i + 1], s[i + 2]>>, 16, U8Max)
    ELSE Err("None", "")

\* a plausible slip: windows that do not parse are dropped (filter_map)
hex_to_bytes_skipping(s) ==
    IF Len(s) % 2 = 0
    THEN LET good == {k \in 1..(Len(s) \div 2) : hex_window(s, 2 * (k - 1)).ok}
             RECURSIVE Take(_)
             Take(k) == IF k > Len(s) \div 2 THEN <<>>
                        ELSE IF k \in good
                             THEN <<hex_window(s, 2 * (k - 1)).val>> \o Take(k + 1)
                             ELSE Take(k + 1)
         IN Ok(Take(1))
    ELSE Err("None", "")

\* windows read as decimal numbers (sub.parse::<u8>())
hex_to_bytes_decimal(s) ==
    LET window(i) ==
            IF is_char_boundary(s, i) /\ is_char_boundary(s, i + 2)
            THEN from_str_radix(<<s[i + 1], s[i + 2]>>, 10, U8Max)
            ELSE Err("None", "")
    IN IF Len(s) % 2 = 0
       THEN IF \A k \in 1..(Len(s) \div 2) : window(2 * (k - 1)).ok
            THEN Ok([k \in 1..(Len(s) \div 2) |-> window(2 * (k - 1)).val])
            ELSE Err("None", "")
       ELSE Err("None", "")

\* Utils::hex_to_bytes: Some(bytes) (Ok) or None (Err); collect() into Option fails
\* as soon as one window is None
hex_to_bytes(s) ==
    IF Len(s) % 2 = 0
    THEN IF \A k \in 1..(Len(s) \div 2) : hex_window(s, 2 * (k - 1)).ok
         THEN Ok([k \in 1..(Len(s) \div 2) |-> hex_window(s, 2 * (k - 1)).val])
         ELSE Err("None", "")
    ELSE Err("None", "")

(***************************************************************************)
(* base64 (BASE64_STANDARD_NO_PAD) and the PHC salt string.                *)
(***************************************************************************)
B64Alphabet == CAPITAL_LETTERS \o SMALL_LETTERS \o NUMBERS \o <<43, 47>>

ByteAt(s, i) == IF i <= Len(s) THEN s[i] ELSE 0

Pow64(k) == IF k = 0 THEN 1 ELSE IF k = 1 THEN 64 ELSE IF k = 2 THEN 4096 ELSE 262144

\* BASE64_STANDARD_NO_PAD.encode
base64_encode(s) ==
    [j \in 1..((Len(s) * 4 + 2) \div 3) |->
        LET g == (j - 1) \div 4
            k == (j - 1) % 4
            v == ByteAt(s, 3 * g + 1) * 65536 + ByteAt(s, 3 * g + 2) * 256
                 + ByteAt(s, 3 * g + 3)
        IN B64Alphabet[((v \div Pow64(3 - k)) % 64) + 1]]

IsB64Char(c) ==
    \/ c >= 65 /\ c <= 90
    \/ c >= 97 /\ c <= 122
    \/ c >= 48 /\ c <= 57
    \/ c = 43
    \/ c = 47

\* the position of c in B64Alphabet, from 0
B64Value(c) ==
    IF c >= 65 /\ c <= 90 THEN c - 65
    ELSE IF c >= 97 /\ c <= 122 THEN c - 97 + 26
    ELSE IF c >= 48 /\ c <= 57 THEN c - 48 + 52
    ELSE IF c = 43 THEN 62
    ELSE 63

SextetAt(s, i) == IF i <= Len(s) THEN B64Value(s[i]) ELSE 0

Pow256(k) == IF k = 0 THEN 1 ELSE IF k = 1 THEN 256 ELSE 65536

\* Salt::decode_b64 (unpadded base64): the bytes the salt string stands for.  The
\* decoder rejects a character outside the alphabet, a last group of one character,
\* and a last character whose unused low bits are not zero (the text is not what
\* encoding the decoded bytes gives).
base64_decode(s) ==
    IF \/ \E i \in 1..Len(s) : ~IsB64Char(s[i])
       \/ Len(s) % 4 = 1
       \/ Len(s) % 4 = 2 /\ B64Value(s[Len(s)]) % 16 # 0
       \/ Len(s) % 4 = 3 /\ B64Value(s[Len(s)]) % 4 # 0
    THEN Err("password_hash::Error", "B64Encoding(InvalidEncoding)")
    ELSE Ok([j \in 1..((Len(s) * 3) \div 4) |->
            LET g == (j - 1) \div 3
                k == (j - 1) % 3
                v == SextetAt(s, 4 * g + 1) * 262144 + SextetAt(s, 4 * g + 2) * 4096
                     + SextetAt(s, 4 * g + 3) * 64 + SextetAt(s, 4 * g + 4)
            IN (v \div Pow256(2 - k)) % 256])

\* password_hash::Salt::MIN_LENGTH / MAX_LENGTH, in characters of the salt string
SaltMinLength == 4

SaltMaxLength == 64

\* SaltString::from_b64: the string is kept when it is a valid PHC salt string
SaltString_from_b64(s) ==
    IF Len(s) < SaltMinLength THEN Err("password_hash::Error", "SaltInvalid(TooShort)")
    ELSE IF Len(s) > SaltMaxLength THEN Err("password_hash::Error", "SaltInvalid(TooLong)")
    ELSE IF \E i \in 1..Len(s) : ~IsB64Char(s[i]) THEN Err("password_hash::Error", "SaltInvalid(InvalidChar)")
    ELSE Ok(s)

(***************************************************************************)
(* user_input.rs                                                           *)
(***************************************************************************)
MinIdLength == 8

\* a length check counting one byte too many
UserID_from_str_off_by_one(s) ==
    IF Len(s) > MinIdLength THEN Ok(s)
    ELSE Err("UserInputError", "User ID length must be at least 8 character")

\* UserID::from_str
UserID_from_str(s) ==
    IF Len(s) >= MinIdLength THEN Ok(s)
    ELSE Err("UserInputError", "User ID length must be at least 8 character")

\* MasterPasswordPlain::from_str
MasterPasswordPlain_from_str(s) ==
    IF Len(s) >= MinIdLength THEN Ok(s)
    ELSE Err("UserInputError", "Master Password length must be at least 8 character")

\* ServiceID::from_str
ServiceID_from_str(s) == Ok(s)

\* usize::MAX on a 64-bit target, as decimal digits (it exceeds the model checker's
\* integers, so a usize is carried as its canonical decimal digit string)
UsizeMaxDigits ==
    <<49, 56, 52, 52, 54, 55, 52, 52, 48, 55, 51, 55, 48, 57, 53, 53, 49, 54, 49, 53>>

RECURSIVE strip_zeros(_)
strip_zeros(d) == IF Len(d) > 1 /\ d[1] = 48 THEN strip_zeros(Tail(d)) ELSE d

\* a < b or a = b for canonical decimal digit strings
DigitsLeq(a, b) ==
    \/ Len(a) < Len(b)
    \/ /\ Len(a) = Len(b)
       /\ \/ a = b
          \/ \E i \in 1..Len(a) : /\ a[i] < b[i]
                                  /\ \A j \in 1..(i - 1) : a[j] = b[j]

\* str::parse::<usize>: the value as canonical decimal digits.  The digit loop
\* reads from the left and returns at the first character that is no digit
\* (InvalidDigit) or the first digit with which the value exceeds usize::MAX
\* (PosOverflow), whichever comes first.
parse_usize(s) ==
    IF Len(s) = 0 THEN Err("ParseIntError", "Empty")
    ELSE IF Len(s) = 1 /\ s[1] \in {43, 45} THEN Err("ParseIntError", "InvalidDigit")
    ELSE LET digits == IF s[1] = 43 THEN Tail(s) ELSE s
             invalid(i) == to_digit(digits[i], 10) < 0
             overflows(i) ==
                 ~DigitsLeq(strip_zeros(SubSeq(digits, 1, i)), UsizeMaxDigits)
             stops == {i \in 1..Len(digits) : invalid(i) \/ overflows(i)}
         IN IF stops = {} THEN Ok(strip_zeros(digits))
            ELSE IF invalid(CHOOSE i \in stops : \A j \in stops : i <= j)
                 THEN Err("ParseIntError", "InvalidDigit")
                 ELSE Err("ParseIntError", "PosOverflow")

\* a constructor that forgets the `value > 0` test
Generation_from_str_zero_ok(s) ==
    LET p == parse_usize(s)
    IN IF p.ok THEN Ok(p.val)
       ELSE Err("UserInputError", "Generation must be a number greater than 0")

\* Generation::from_str; Generation::fmt prints the stored value, i.e. val
Generation_from_str(s) ==
    LET p == parse_usize(s)
    IN IF p.ok
       THEN IF p.val # <<48>> THEN Ok(p.val)
            ELSE Err("UserInputError", "Generation must be a number greater than 0")
       ELSE Err("UserInputError", "Generation must be a number greater than 0")

\* the preset table of CharSet::try_from
Presets == <<SMALL_LETTERS, CAPITAL_LETTERS, NUMBERS, SPECIAL_CHARS>>

\* a loop that passes over an index with no preset (if let Some(p) = presets.get(v))
RECURSIVE concat_presets_skipping(_, _, _)
concat_presets_skipping(value, i, char_set) ==
    IF i > Len(value) THEN Ok(char_set)
    ELSE IF value[i] \in 0..3
         THEN concat_presets_skipping(value, i + 1, char_set \o Presets[value[i] + 1])
         ELSE concat_presets_skipping(value, i + 1, char_set)

\* a loop that takes each preset once, however often it is selected
RECURSIVE concat_presets_dedup(_, _, _)
concat_presets_dedup(value, i, char_set) ==
    IF i > Len(value) THEN Ok(char_set)
    ELSE IF value[i] \in 0..3
         THEN IF \E j \in 1..(i - 1) : value[j] = value[i]
              THEN concat_presets_dedup(value, i + 1, char_set)
              ELSE concat_presets_dedup(value, i + 1, char_set \o Presets[value[i] + 1])
         ELSE Err("UserInputError", "Invalid character set!")

RECURSIVE concat_presets(_, _, _)
concat_presets(value, i, char_set) ==
    IF i > Len(value) THEN Ok(char_set)
    ELSE IF value[i] \in 0..3
         THEN concat_presets(value, i + 1, char_set \o Presets[value[i] + 1])
         ELSE Err("UserInputError", "Invalid character set!")

\* CharSet::try_from(&[usize])
CharSet_try_from(value) ==
    LET r == concat_presets(value, 1, <<>>)
    IN IF ~r.ok THEN r
       ELSE IF r.val = <<>>
            THEN Err("UserInputError", "You must select at least one character set!")
            ELSE r

MaxPasswordLength == 64

\* a range check that forgets the upper limit
PasswordLength_from_str_no_upper(s) ==
    LET p == from_str_radix(s, 10, U8Max)
    IN IF p.ok
       THEN IF p.val > 0 THEN Ok(p.val)
            ELSE Err("UserInputError", "PasswordLength must be a number between 1 and 64")
       ELSE Err("UserInputError", "PasswordLength must be a number between 1 and 64")

\* PasswordLength::from_str (s.parse::<u8>())
PasswordLength_from_str(s) ==
    LET p == from_str_radix(s, 10, U8Max)
    IN IF p.ok
       THEN IF p.val > 0 /\ p.val <= MaxPasswordLength THEN Ok(p.val)
            ELSE Err("UserInputError", "PasswordLength must be a number between 1 and 64")
       ELSE Err("UserInputError", "PasswordLength must be a number between 1 and 64")

(***************************************************************************)
(* The two primitives.  Argon2id and HMAC-SHA-512 are computed by the      *)
(* argon2 and hmac crates.  They are given here by their values on the     *)
(* inputs they are applied to in this module: Argon2id as RFC 9106 defines *)
(* it for the parameters of MasterSecret::new, HMAC-SHA-512 as RFC 2104    *)
(* and FIPS 180-4 define it.  The vectors asserted by the tests of         *)
(* master_secret.rs and service_secret.rs are among the values.  Neither   *)
(* operator has a value on an input outside its table.                     *)
(***************************************************************************)
\* user_id "4x9*1V{5lh" / master password "<J91=0iC3`" (master_secret.rs tests)
VectorUserID == <<52, 120, 57, 42, 49, 86, 123, 53, 108, 104>>

VectorMasterPassword == <<60, 74, 57, 49, 61, 48, 105, 67, 51, 96>>

VectorMasterSecret ==
    <<122, 213, 216, 223, 159, 128, 247, 73, 253, 67, 22, 201, 104, 23, 25, 235,
      123, 162, 156, 36, 195, 131, 17, 208, 233, 187, 86, 4, 112, 36, 171, 145>>

VectorServiceSecret ==
    <<97, 90, 249, 52, 113, 252, 44, 147, 86, 196, 201, 157, 65, 161, 249, 175,
      58, 224, 240, 31, 199, 244, 30, 98, 233, 5, 78, 81, 250, 249, 179, 73,
      121, 56, 62, 213, 217, 25, 63, 61, 111, 102, 71, 210, 39, 77, 128, 101,
      95, 178, 83, 63, 185, 26, 242, 166, 76, 198, 145, 47, 179, 114, 78, 144>>

\* argon2::MIN_SALT_LEN
Argon2MinSaltLen == 8

\* <<password, salt, tag>>: the 32-byte tag (output_len = None) of Argon2id v0x13,
\* m = 32768, t = 4, p = 4, no secret, no associated data
Argon2idValues ==
    {<<<<53, 52, 86, 90, 194, 163, 49, 60, 81, 85, 57, 35, 106, 112, 68, 90, 50, 117, 47,
       36, 54, 70, 106, 88, 106, 71, 56, 110, 59, 78, 45>>,
       <<51, 48, 117, 34, 68, 50, 89, 84, 50, 102, 53, 87, 66, 35, 102, 68, 74, 62, 106,
       51, 101, 126, 115, 44, 86, 39, 39, 72, 87, 63, 58, 40>>,
       <<242, 201, 192, 108, 72, 249, 248, 139, 90, 71, 179, 226, 111, 24, 39, 51, 53, 6,
       52, 29, 212, 105, 244, 117, 235, 213, 198, 46, 104, 193, 64, 49>>>>,
     <<<<55, 115, 52, 36, 116, 78, 57, 115, 72, 109, 111, 97, 92, 124, 116, 84, 112, 41,
       82, 83>>,
       <<50, 48, 75, 48, 100, 50, 49, 91, 45, 61, 37, 82, 101, 113, 54, 105, 76, 102, 59,
       58, 63, 76>>,
       <<194, 3, 45, 129, 246, 154, 175, 223, 157, 231, 165, 32, 10, 91, 21, 127, 128, 54,
       58, 98, 29, 238, 89, 31, 131, 191, 123, 10, 58, 137, 85, 175>>>>,
     <<<<57, 43, 78, 79, 57, 38, 86, 70, 100, 113, 84, 75, 56, 100, 80, 59, 101, 103, 78,
       79, 117, 66, 98, 101, 57, 56, 53, 42, 40, 33, 80, 61, 50, 81, 67, 49, 44, 79, 62,
       70>>,
       <<52, 48, 84, 114, 101, 54, 45, 58, 53, 50, 58, 81, 77, 77, 57, 55, 61, 44, 41, 91,
       90, 90, 95, 102, 123, 37, 81, 72, 96, 76, 62, 63, 101, 117, 46, 123, 66, 34, 40,
       65, 104, 84>>,
       <<233, 137, 206, 53, 148, 90, 186, 232, 136, 236, 162, 73, 177, 191, 138, 64, 152,
       221, 254, 54, 153, 196, 98, 218, 175, 207, 100, 95, 1, 199, 8, 156>>>>,
     <<<<60, 74, 57, 49, 61, 48, 105, 67, 51, 96>>,
       <<49, 48, 48, 49, 50, 51, 52, 53, 54, 55, 56, 57>>,
       <<210, 29, 107, 218, 99, 13, 135, 193, 253, 193, 227, 170, 159, 39, 32, 146, 232,
       188, 131, 121, 124, 245, 25, 178, 184, 174, 102, 87, 182, 226, 218, 51>>>>,
     <<<<60, 74, 57, 49, 61, 48, 105, 67, 51, 96>>,
       <<49, 48, 49, 48, 98, 99, 100, 101, 102, 103, 104, 105>>,
       <<86, 169, 36, 10, 114, 175, 66, 114, 158, 231, 239, 102, 57, 34, 209, 0, 114, 81,
       11, 98, 75, 154, 219, 21, 90, 105, 174, 137, 127, 10, 189, 169>>>>,
     <<<<60, 74, 57, 49, 61, 48, 105, 67, 51, 96>>,
       <<49, 48, 49, 50, 51, 52, 53, 54, 55, 56, 57, 48>>,
       <<154, 169, 168, 243, 30, 31, 186, 170, 37, 93, 12, 10, 167, 199, 169, 157, 100,
       58, 202, 250, 80, 82, 142, 4, 193, 255, 111, 85, 30, 71, 13, 46>>>>,
     <<<<60, 74, 57, 49, 61, 48, 105, 67, 51, 96>>,
       <<49, 48, 52, 120, 57, 42, 49, 86, 123, 53, 108, 104>>,
       <<122, 213, 216, 223, 159, 128, 247, 73, 253, 67, 22, 201, 104, 23, 25, 235, 123,
       162, 156, 36, 195, 131, 17, 208, 233, 187, 86, 4, 112, 36, 171, 145>>>>,
     <<<<60, 74, 57, 49, 61, 48, 105, 67, 51, 96>>,
       <<49, 48, 57, 56, 98, 99, 100, 101, 102, 103, 104, 105>>,
       <<129, 189, 255, 222, 135, 60, 192, 165, 8, 73, 142, 42, 168, 152, 24, 190, 214,
       219, 172, 161, 192, 130, 224, 84, 112, 93, 183, 48, 13, 77, 111, 0>>>>,
     <<<<60, 74, 57, 49, 61, 48, 105, 67, 51, 96>>,
       <<49, 48, 60, 74, 57, 49, 61, 48, 105, 67, 51, 96>>,
       <<220, 255, 89, 151, 27, 110, 83, 242, 80, 160, 16, 142, 182, 237, 78, 129, 75,
       142, 14, 78, 29, 7, 177, 0, 20, 48, 48, 171, 163, 251, 200, 51>>>>,
     <<<<60, 74, 57, 49, 61, 48, 105, 67, 51, 96>>,
       <<49, 48, 98, 99, 100, 101, 102, 103, 104, 105, 106, 107>>,
       <<40, 47, 209, 95, 224, 217, 201, 137, 111, 231, 249, 21, 5, 73, 130, 157, 191,
       150, 41, 118, 88, 52, 78, 254, 97, 221, 1, 194, 204, 123, 118, 231>>>>,
     <<<<60, 74, 57, 49, 61, 48, 105, 67, 51, 96>>,
       <<49, 49, 48, 52, 120, 57, 42, 49, 86, 123, 53, 108, 104>>,
       <<160, 59, 53, 126, 89, 240, 186, 24, 178, 136, 24, 14, 236, 11, 106, 144, 27, 103,
       20, 59, 85, 49, 95, 92, 181, 123, 220, 104, 181, 141, 0, 99>>>>,
     <<<<60, 74, 57, 49, 61, 48, 105, 67, 51, 96>>,
       <<49, 49, 49, 50, 51, 52, 53, 54, 55, 56, 57, 48, 49>>,
       <<70, 36, 252, 146, 135, 83, 170, 177, 243, 30, 172, 147, 77, 221, 228, 165, 109,
       148, 10, 177, 115, 81, 102, 174, 251, 212, 122, 167, 113, 228, 46, 87>>>>,
     <<<<60, 74, 57, 49, 61, 48, 105, 67, 51, 96>>,
       <<49, 49, 98, 99, 100, 101, 102, 103, 104, 105, 106, 107, 108>>,
       <<119, 236, 126, 143, 156, 39, 114, 62, 227, 152, 67, 244, 236, 167, 184, 17, 43,
       105, 40, 210, 88, 184, 91, 117, 94, 253, 143, 86, 98, 228, 226, 85>>>>,
     <<<<60, 74, 57, 49, 61, 48, 105, 67, 51, 96>>,
       <<49, 50, 49, 50, 51, 52, 53, 54, 55, 56, 57, 48, 49, 50>>,
       <<244, 15, 148, 27, 215, 232, 49, 139, 59, 46, 246, 29, 232, 77, 81, 31, 224, 74,
       246, 4, 173, 123, 19, 180, 164, 90, 166, 220, 80, 41, 187, 130>>>>,
     <<<<60, 74, 57, 49, 61, 48, 105, 67, 51, 96>>,
       <<49, 50, 98, 99, 100, 101, 102, 103, 104, 105, 106, 107, 108, 109>>,
       <<95, 245, 196, 99, 54, 90, 107, 93, 60, 7, 62, 227, 238, 99, 42, 145, 36, 202,
       187, 208, 226, 55, 81, 107, 85, 224, 140, 74, 63, 175, 114, 49>>>>,
     <<<<60, 74, 57, 49, 61, 48, 105, 67, 51, 96>>,
       <<49, 51, 49, 50, 51, 52, 53, 54, 55, 56, 57, 48, 49, 50, 51>>,
       <<84, 193, 22, 85, 23, 218, 234, 153, 201, 13, 243, 221, 85, 52, 103, 151, 192,
       206, 52, 88, 186, 132, 84, 98, 210, 49, 139, 184, 45, 49, 37, 216>>>>,
     <<<<60, 74, 57, 49, 61, 48, 105, 67, 51, 96>>,
       <<49, 51, 98, 99, 100, 101, 102, 103, 104, 105, 106, 107, 108, 109, 110>>,
       <<145, 18, 137, 25, 153, 139, 128, 203, 122, 114, 100, 167, 120, 182, 3, 190, 166,
       237, 248, 31, 21, 44, 110, 50, 172, 24, 13, 118, 82, 53, 36, 171>>>>,
     <<<<60, 74, 57, 49, 61, 48, 105, 67, 51, 96>>,
       <<49, 52, 49, 50, 51, 52, 53, 54, 55, 56, 57, 48, 49, 50, 51, 52>>,
       <<165, 198, 134, 141, 147, 168, 25, 195, 188, 214, 164, 219, 111, 54, 91, 224, 50,
       20, 233, 93, 14, 217, 140, 74, 66, 172, 199, 239, 20, 11, 154, 68>>>>,
     <<<<60, 74, 57, 49, 61, 48, 105, 67, 51, 96>>,
       <<49, 52, 98, 99, 100, 101, 102, 103, 104, 105, 106, 107, 108, 109, 110, 111>>,
       <<109, 120, 116, 65, 206, 251, 30, 18, 47, 197, 139, 118, 80, 82, 8, 153, 237, 27,
       49, 253, 9, 148, 104, 221, 139, 59, 210, 82, 140, 191, 1, 110>>>>,
     <<<<60, 74, 57, 49, 61, 48, 105, 67, 51, 96>>,
       <<49, 53, 49, 50, 51, 52, 53, 54, 55, 56, 57, 48, 49, 50, 51, 52, 53>>,
       <<115, 239, 176, 125, 112, 187, 129, 123, 47, 194, 1, 95, 129, 24, 106, 54, 116,
       130, 198, 142, 180, 185, 245, 128, 25, 170, 135, 159, 225, 148, 52, 118>>>>,
     <<<<60, 74, 57, 49, 61, 48, 105, 67, 51, 96>>,
       <<49, 53, 98, 99, 100, 101, 102, 103, 104, 105, 106, 107, 108, 109, 110, 111, 112>>,
       <<34, 82, 224, 201, 108, 143, 166, 70, 141, 34, 87, 239, 117, 81, 106, 3, 238, 83,
       37, 129, 204, 24, 128, 10, 146, 224, 170, 23, 83, 197, 45, 140>>>>,
     <<<<60, 74, 57, 49, 61, 48, 105, 67, 51, 96>>,
       <<49, 54, 49, 50, 51, 52, 53, 54, 55, 56, 57, 48, 49, 50, 51, 52, 53, 54>>,
       <<68, 144, 159, 248, 147, 235, 174, 192, 249, 40, 148, 21, 236, 200, 76, 108, 178,
       94, 79, 208, 112, 151, 144, 4, 249, 10, 158, 63, 174, 233, 140, 180>>>>,
     <<<<60, 74, 57, 49, 61, 48, 105, 67, 51, 96>>,
       <<49, 54, 98, 99, 100, 101, 102, 103, 104, 105, 106, 107, 108, 109, 110, 111, 112,
       113>>,
       <<53, 151, 37, 252, 160, 184, 74, 126, 43, 190, 163, 230, 39, 210, 88, 67, 70, 224,
       67, 108, 189, 19, 223, 255, 166, 82, 166, 253, 80, 164, 186, 49>>>>,
     <<<<60, 74, 57, 49, 61, 48, 105, 67, 51, 96>>,
       <<49, 55, 49, 50, 51, 52, 53, 54, 55, 56, 57, 48, 49, 50, 51, 52, 53, 54, 55>>,
       <<46, 158, 226, 159, 27, 131, 46, 36, 174, 199, 235, 241, 104, 254, 100, 111, 35,
       167, 110, 84, 240, 80, 169, 109, 175, 253, 8, 160, 242, 175, 58, 121>>>>,
     <<<<60, 74, 57, 49, 61, 48, 105, 67, 51, 96>>,
       <<49, 55, 98, 99, 100, 101, 102, 103, 104, 105, 106, 107, 108, 109, 110, 111, 112,
       113, 114>>,
       <<188, 138, 74, 0, 188, 202, 81, 135, 78, 176, 24, 133, 72, 44, 205, 88, 101, 72,
       123, 38, 188, 132, 141, 10, 243, 204, 208, 13, 149, 158, 135, 86>>>>,
     <<<<60, 74, 57, 49, 61, 48, 105, 67, 51, 96>>,
       <<49, 56, 49, 50, 51, 52, 53, 54, 55, 56, 57, 48, 49, 50, 51, 52, 53, 54, 55, 56>>,
       <<6, 182, 230, 67, 85, 109, 185, 245, 176, 159, 111, 154, 199, 133, 194, 19, 169,
       57, 155, 7, 76, 101, 105, 68, 212, 254, 65, 147, 217, 109, 154, 120>>>>,
     <<<<60, 74, 57, 49, 61, 48, 105, 67, 51, 96>>,
       <<49, 56, 98, 99, 100, 101, 102, 103, 104, 105, 106, 107, 108, 109, 110, 111, 112,
       113, 114, 115>>,
       <<67, 98, 165, 22, 106, 70, 167, 44, 37, 203, 95, 95, 187, 247, 251, 226, 135, 6,
       53, 102, 158, 190, 46, 19, 80, 105, 234, 93, 222, 129, 251, 53>>>>,
     <<<<60, 74, 57, 49, 61, 48, 105, 67, 51, 96>>,
       <<49, 57, 49, 50, 51, 52, 53, 54, 55, 56, 57, 48, 49, 50, 51, 52, 53, 54, 55, 56,
       57>>,
       <<100, 211, 8, 51, 68, 142, 185, 156, 217, 88, 166, 195, 14, 139, 156, 230, 109,
       18, 200, 52, 106, 139, 216, 142, 249, 24, 170, 83, 9, 187, 200, 194>>>>,
     <<<<60, 74, 57, 49, 61, 48, 105, 67, 51, 96>>,
       <<49, 57, 98, 99, 100, 101, 102, 103, 104, 105, 106, 107, 108, 109, 110, 111, 112,
       113, 114, 115, 116>>,
       <<251, 22, 173, 43, 170, 25, 37, 27, 207, 138, 94, 99, 50, 90, 158, 70, 184, 155,
       34, 231, 220, 241, 220, 182, 228, 23, 2, 150, 180, 208, 112, 152>>>>,
     <<<<60, 74, 57, 49, 61, 48, 105, 67, 51, 96>>,
       <<50, 48, 49, 50, 51, 52, 53, 54, 55, 56, 57, 48, 49, 50, 51, 52, 53, 54, 55, 56,
       57, 48>>,
       <<11, 184, 164, 201, 161, 117, 20, 208, 211, 191, 247, 35, 127, 123, 3, 71, 110,
       180, 157, 196, 28, 187, 222, 170, 78, 186, 195, 250, 235, 26, 207, 39>>>>,
     <<<<60, 74, 57, 49, 61, 48, 105, 67, 51, 96>>,
       <<50, 48, 98, 99, 100, 101, 102, 103, 104, 105, 106, 107, 108, 109, 110, 111, 112,
       113, 114, 115, 116, 117>>,
       <<83, 13, 191, 57, 221, 124, 205, 210, 45, 99, 168, 171, 234, 8, 19, 33, 236, 246,
       21, 135, 30, 58, 115, 52, 242, 166, 170, 47, 146, 207, 74, 3>>>>,
     <<<<60, 74, 57, 49, 61, 48, 105, 67, 51, 96>>,
       <<50, 49, 48, 52, 120, 57, 42, 49, 86, 123, 53, 108, 104>>,
       <<209, 224, 200, 98, 232, 37, 10, 84, 41, 215, 255, 22, 100, 141, 21, 169, 219,
       179, 245, 59, 0, 15, 232, 172, 125, 193, 126, 108, 168, 64, 238, 211>>>>,
     <<<<60, 74, 57, 49, 61, 48, 105, 67, 51, 96>>,
       <<50, 49, 49, 50, 51, 52, 53, 54, 55, 56, 57, 48, 49, 50, 51, 52, 53, 54, 55, 56,
       57, 48, 49>>,
       <<50, 232, 22, 152, 32, 236, 236, 226, 51, 255, 32, 211, 248, 169, 122, 172, 152,
       37, 21, 9, 167, 222, 57, 111, 212, 238, 57, 96, 0, 29, 7, 135>>>>,
     <<<<60, 74, 57, 49, 61, 48, 105, 67, 51, 96>>,
       <<50, 49, 98, 99, 100, 101, 102, 103, 104, 105, 106, 107, 108, 109, 110, 111, 112,
       113, 114, 115, 116, 117, 118>>,
       <<252, 237, 120, 160, 66, 45, 2, 8, 41, 48, 90, 194, 134, 144, 92, 142, 248, 190,
       131, 7, 239, 110, 178, 71, 91, 64, 117, 96, 67, 157, 40, 52>>>>,
     <<<<60, 74, 57, 49, 61, 48, 105, 67, 51, 96>>,
       <<50, 50, 49, 50, 51, 52, 53, 54, 55, 56, 57, 48, 49, 50, 51, 52, 53, 54, 55, 56,
       57, 48, 49, 50>>,
       <<69, 153, 123, 111, 5, 200, 237, 238, 66, 152, 98, 99, 87, 34, 154, 18, 69, 205,
       164, 74, 7, 40, 221, 175, 140, 247, 95, 167, 242, 72, 243, 167>>>>,
     <<<<60, 74, 57, 49, 61, 48, 105, 67, 51, 96>>,
       <<50, 50, 98, 99, 100, 101, 102, 103, 104, 105, 106, 107, 108, 109, 110, 111, 112,
       113, 114, 115, 116, 117, 118, 119>>,
       <<206, 66, 209, 117, 255, 157, 38, 184, 84, 87, 28, 20, 49, 153, 195, 29, 121, 103,
       254, 90, 209, 80, 70, 184, 86, 55, 213, 222, 28, 212, 225, 129>>>>,
     <<<<60, 74, 57, 49, 61, 48, 105, 67, 51, 96>>,
       <<50, 51, 49, 50, 51, 52, 53, 54, 55, 56, 57, 48, 49, 50, 51, 52, 53, 54, 55, 56,
       57, 48, 49, 50, 51>>,
       <<168, 96, 51, 140, 197, 227, 19, 10, 182, 118, 249, 211, 141, 123, 103, 249, 171,
       6, 212, 106, 238, 228, 94, 11, 46, 22, 21, 55, 43, 104, 17, 192>>>>,
     <<<<60, 74, 57, 49, 61, 48, 105, 67, 51, 96>>,
       <<50, 51, 98, 99, 100, 101, 102, 103, 104, 105, 106, 107, 108, 109, 110, 111, 112,
       113, 114, 115, 116, 117, 118, 119, 120>>,
       <<208, 108, 7, 178, 22, 209, 155, 77, 241, 106, 184, 181, 1, 9, 54, 151, 68, 54,
       206, 4, 26, 99, 120, 189, 166, 168, 194, 66, 89, 118, 252, 214>>>>,
     <<<<60, 74, 57, 49, 61, 48, 105, 67, 51, 96>>,
       <<50, 52, 49, 50, 51, 52, 53, 54, 55, 56, 57, 48, 49, 50, 51, 52, 53, 54, 55, 56,
       57, 48, 49, 50, 51, 52>>,
       <<206, 212, 194, 0, 76, 60, 28, 179, 184, 231, 36, 226, 33, 252, 249, 129, 52, 145,
       81, 119, 42, 121, 102, 46, 123, 168, 157, 43, 55, 145, 187, 28>>>>,
     <<<<60, 74, 57, 49, 61, 48, 105, 67, 51, 96>>,
       <<50, 52, 98, 99, 100, 101, 102, 103, 104, 105, 106, 107, 108, 109, 110, 111, 112,
       113, 114, 115, 116, 117, 118, 119, 120, 121>>,
       <<245, 109, 48, 182, 92, 51, 55, 137, 29, 137, 194, 226, 220, 190, 59, 42, 37, 196,
       228, 180, 84, 70, 167, 97, 83, 95, 243, 39, 184, 57, 81, 218>>>>,
     <<<<60, 74, 57, 49, 61, 48, 105, 67, 51, 96>>,
       <<50, 53, 49, 50, 51, 52, 53, 54, 55, 56, 57, 48, 49, 50, 51, 52, 53, 54, 55, 56,
       57, 48, 49, 50, 51, 52, 53>>,
       <<162, 130, 124, 57, 220, 174, 151, 94, 235, 242, 200, 217, 122, 150, 137, 7, 20,
       35, 58, 200, 58, 207, 169, 45, 185, 49, 247, 250, 166, 115, 38, 159>>>>,
     <<<<60, 74, 57, 49, 61, 48, 105, 67, 51, 96>>,
       <<50, 53, 98, 99, 100, 101, 102, 103, 104, 105, 106, 107, 108, 109, 110, 111, 112,
       113, 114, 115, 116, 117, 118, 119, 120, 121, 122>>,
       <<24, 245, 197, 35, 99, 241, 134, 121, 34, 27, 13, 245, 134, 66, 122, 143, 126,
       146, 72, 122, 6, 52, 47, 44, 128, 154, 30, 58, 201, 83, 227, 125>>>>,
     <<<<60, 74, 57, 49, 61, 48, 105, 67, 51, 96>>,
       <<50, 54, 49, 50, 51, 52, 53, 54, 55, 56, 57, 48, 49, 50, 51, 52, 53, 54, 55, 56,
       57, 48, 49, 50, 51, 52, 53, 54>>,
       <<36, 174, 83, 205, 198, 211, 108, 244, 175, 208, 90, 42, 164, 3, 89, 94, 28, 72,
       129, 52, 169, 248, 77, 58, 24, 119, 38, 68, 82, 92, 152, 52>>>>,
     <<<<60, 74, 57, 49, 61, 48, 105, 67, 51, 96>>,
       <<50, 54, 98, 99, 100, 101, 102, 103, 104, 105, 106, 107, 108, 109, 110, 111, 112,
       113, 114, 115, 116, 117, 118, 119, 120, 121, 122, 97>>,
       <<54, 38, 247, 252, 171, 105, 31, 30, 124, 248, 236, 108, 10, 58, 243, 100, 203,
       17, 97, 183, 227, 118, 63, 94, 4, 129, 16, 45, 166, 23, 63, 65>>>>,
     <<<<60, 74, 57, 49, 61, 48, 105, 67, 51, 96>>,
       <<50, 55, 49, 50, 51, 52, 53, 54, 55, 56, 57, 48, 49, 50, 51, 52, 53, 54, 55, 56,
       57, 48, 49, 50, 51, 52, 53, 54, 55>>,
       <<126, 123, 108, 92, 82, 107, 38, 173, 251, 96, 68, 188, 110, 181, 26, 114, 151,
       147, 109, 29, 57, 173, 41, 27, 239, 110, 110, 96, 11, 135, 224, 108>>>>,
     <<<<60, 74, 57, 49, 61, 48, 105, 67, 51, 96>>,
       <<50, 55, 98, 99, 100, 101, 102, 103, 104, 105, 106, 107, 108, 109, 110, 111, 112,
       113, 114, 115, 116, 117, 118, 119, 120, 121, 122, 97, 98>>,
       <<44, 152, 233, 3, 177, 166, 193, 212, 253, 126, 156, 251, 121, 87, 206, 14, 71,
       198, 182, 227, 45, 124, 6, 117, 240, 61, 12, 67, 51, 47, 168, 153>>>>,
     <<<<60, 74, 57, 49, 61, 48, 105, 67, 51, 96>>,
       <<50, 56, 49, 50, 51, 52, 53, 54, 55, 56, 57, 48, 49, 50, 51, 52, 53, 54, 55, 56,
       57, 48, 49, 50, 51, 52, 53, 54, 55, 56>>,
       <<244, 88, 237, 92, 214, 47, 83, 98, 85, 78, 229, 234, 1, 70, 134, 124, 167, 205,
       195, 31, 167, 231, 206, 210, 173, 164, 221, 91, 216, 16, 37, 255>>>>,
     <<<<60, 74, 57, 49, 61, 48, 105, 67, 51, 96>>,
       <<50, 56, 98, 99, 100, 101, 102, 103, 104, 105, 106, 107, 108, 109, 110, 111, 112,
       113, 114, 115, 116, 117, 118, 119, 120, 121, 122, 97, 98, 99>>,
       <<243, 137, 79, 87, 22, 225, 73, 37, 164, 144, 171, 40, 125, 230, 176, 26, 204,
       143, 137, 65, 232, 42, 36, 170, 49, 201, 89, 127, 85, 250, 86, 66>>>>,
     <<<<60, 74, 57, 49, 61, 48, 105, 67, 51, 96>>,
       <<50, 57, 49, 50, 51, 52, 53, 54, 55, 56, 57, 48, 49, 50, 51, 52, 53, 54, 55, 56,
       57, 48, 49, 50, 51, 52, 53, 54, 55, 56, 57>>,
       <<151, 30, 40, 31, 239, 170, 255, 26, 237, 148, 120, 35, 83, 36, 71, 129, 235, 14,
       5, 216, 53, 235, 67, 144, 90, 252, 193, 180, 227, 121, 227, 60>>>>,
     <<<<60, 74, 57, 49, 61, 48, 105, 67, 51, 96>>,
       <<50, 57, 98, 99, 100, 101, 102, 103, 104, 105, 106, 107, 108, 109, 110, 111, 112,
       113, 114, 115, 116, 117, 118, 119, 120, 121, 122, 97, 98, 99, 100>>,
       <<42, 106, 184, 68, 74, 40, 163, 79, 206, 10, 41, 57, 108, 215, 24, 191, 177, 79,
       2, 36, 187, 177, 136, 68, 141, 167, 20, 230, 231, 22, 95, 213>>>>,
     <<<<60, 74, 57, 49, 61, 48, 105, 67, 51, 96>>,
       <<51, 48, 49, 50, 51, 52, 53, 54, 55, 56, 57, 48, 49, 50, 51, 52, 53, 54, 55, 56,
       57, 48, 49, 50, 51, 52, 53, 54, 55, 56, 57, 48>>,
       <<228, 140, 58, 210, 238, 48, 82, 88, 16, 142, 242, 145, 64, 90, 101, 43, 183, 25,
       248, 129, 141, 61, 53, 24, 24, 20, 83, 79, 74, 167, 142, 1>>>>,
     <<<<60, 74, 57, 49, 61, 48, 105, 67, 51, 96>>,
       <<51, 48, 98, 99, 100, 101, 102, 103, 104, 105, 106, 107, 108, 109, 110, 111, 112,
       113, 114, 115, 116, 117, 118, 119, 120, 121, 122, 97, 98, 99, 100, 101>>,
       <<250, 253, 90, 33, 178, 211, 92, 88, 148, 198, 126, 231, 136, 52, 100, 73, 139,
       164, 29, 18, 97, 192, 64, 131, 79, 241, 108, 198, 229, 7, 92, 178>>>>,
     <<<<60, 74, 57, 49, 61, 48, 105, 67, 51, 96>>,
       <<51, 49, 48, 52, 120, 57, 42, 49, 86, 123, 53, 108, 104>>,
       <<68, 113, 148, 212, 146, 248, 139, 141, 212, 89, 153, 142, 220, 189, 37, 110, 15,
       134, 127, 251, 218, 13, 63, 90, 222, 175, 183, 249, 98, 126, 220, 29>>>>,
     <<<<60, 74, 57, 49, 61, 48, 105, 67, 51, 96>>,
       <<51, 49, 49, 50, 51, 52, 53, 54, 55, 56, 57, 48, 49, 50, 51, 52, 53, 54, 55, 56,
       57, 48, 49, 50, 51, 52, 53, 54, 55, 56, 57, 48, 49>>,
       <<183, 178, 233, 157, 88, 45, 148, 209, 217, 156, 133, 76, 120, 139, 30, 185, 206,
       123, 132, 165, 65, 35, 238, 227, 214, 110, 169, 224, 59, 217, 150, 132>>>>,
     <<<<60, 74, 57, 49, 61, 48, 105, 67, 51, 96>>,
       <<51, 49, 98, 99, 100, 101, 102, 103, 104, 105, 106, 107, 108, 109, 110, 111, 112,
       113, 114, 115, 116, 117, 118, 119, 120, 121, 122, 97, 98, 99, 100, 101, 102>>,
       <<129, 59, 113, 119, 2, 151, 32, 133, 198, 224, 104, 110, 106, 39, 82, 158, 179,
       223, 215, 244, 48, 72, 21, 141, 145, 41, 239, 8, 215, 154, 118, 147>>>>,
     <<<<60, 74, 57, 49, 61, 48, 105, 67, 51, 96>>,
       <<51, 50, 49, 50, 51, 52, 53, 54, 55, 56, 57, 48, 49, 50, 51, 52, 53, 54, 55, 56,
       57, 48, 49, 50, 51, 52, 53, 54, 55, 56, 57, 48, 49, 50>>,
       <<46, 203, 131, 210, 131, 152, 104, 66, 145, 143, 115, 173, 52, 4, 138, 84, 248,
       47, 218, 194, 67, 221, 203, 139, 200, 240, 43, 195, 229, 38, 113, 229>>>>,
     <<<<60, 74, 57, 49, 61, 48, 105, 67, 51, 96>>,
       <<51, 50, 98, 99, 100, 101, 102, 103, 104, 105, 106, 107, 108, 109, 110, 111, 112,
       113, 114, 115, 116, 117, 118, 119, 120, 121, 122, 97, 98, 99, 100, 101, 102, 103>>,
       <<119, 83, 191, 5, 218, 119, 129, 7, 181, 181, 180, 253, 126, 46, 11, 131, 208,
       183, 92, 50, 11, 108, 43, 167, 41, 78, 153, 29, 67, 125, 94, 97>>>>,
     <<<<60, 74, 57, 49, 61, 48, 105, 67, 51, 96>>,
       <<51, 51, 49, 50, 51, 52, 53, 54, 55, 56, 57, 48, 49, 50, 51, 52, 53, 54, 55, 56,
       57, 48, 49, 50, 51, 52, 53, 54, 55, 56, 57, 48, 49, 50, 51>>,
       <<32, 254, 5, 103, 136, 62, 163, 135, 4, 112, 212, 16, 43, 62, 81, 235, 34, 108,
       121, 234, 151, 241, 60, 228, 208, 26, 157, 246, 210, 94, 96, 199>>>>,
     <<<<60, 74, 57, 49, 61, 48, 105, 67, 51, 96>>,
       <<51, 51, 98, 99, 100, 101, 102, 103, 104, 105, 106, 107, 108, 109, 110, 111, 112,
       113, 114, 115, 116, 117, 118, 119, 120, 121, 122, 97, 98, 99, 100, 101, 102, 103,
       104>>,
       <<188, 10, 248, 27, 67, 13, 168, 194, 222, 215, 114, 231, 240, 205, 92, 89, 194,
       199, 135, 94, 1, 192, 174, 217, 127, 17, 34, 138, 163, 118, 150, 7>>>>,
     <<<<60, 74, 57, 49, 61, 48, 105, 67, 51, 96>>,
       <<51, 52, 49, 50, 51, 52, 53, 54, 55, 56, 57, 48, 49, 50, 51, 52, 53, 54, 55, 56,
       57, 48, 49, 50, 51, 52, 53, 54, 55, 56, 57, 48, 49, 50, 51, 52>>,
       <<201, 16, 220, 247, 137, 191, 69, 83, 36, 102, 237, 163, 19, 132, 103, 168, 226,
       229, 149, 123, 195, 129, 153, 17, 218, 225, 176, 97, 113, 164, 10, 14>>>>,
     <<<<60, 74, 57, 49, 61, 48, 105, 67, 51, 96>>,
       <<51, 52, 98, 99, 100, 101, 102, 103, 104, 105, 106, 107, 108, 109, 110, 111, 112,
       113, 114, 115, 116, 117, 118, 119, 120, 121, 122, 97, 98, 99, 100, 101, 102, 103,
       104, 105>>,
       <<44, 141, 117, 117, 153, 164, 68, 121, 198, 9, 81, 1, 143, 57, 153, 6, 76, 160, 8,
       163, 247, 221, 201, 201, 162, 57, 209, 161, 6, 244, 60, 98>>>>,
     <<<<60, 74, 57, 49, 61, 48, 105, 67, 51, 96>>,
       <<51, 53, 49, 50, 51, 52, 53, 54, 55, 56, 57, 48, 49, 50, 51, 52, 53, 54, 55, 56,
       57, 48, 49, 50, 51, 52, 53, 54, 55, 56, 57, 48, 49, 50, 51, 52, 53>>,
       <<247, 67, 109, 191, 130, 64, 219, 35, 145, 124, 141, 179, 157, 233, 115, 93, 169,
       221, 27, 171, 209, 45, 127, 75, 170, 248, 133, 95, 119, 143, 33, 105>>>>,
     <<<<60, 74, 57, 49, 61, 48, 105, 67, 51, 96>>,
       <<51, 53, 98, 99, 100, 101, 102, 103, 104, 105, 106, 107, 108, 109, 110, 111, 112,
       113, 114, 115, 116, 117, 118, 119, 120, 121, 122, 97, 98, 99, 100, 101, 102, 103,
       104, 105, 106>>,
       <<174, 184, 215, 253, 250, 109, 54, 210, 77, 79, 105, 48, 255, 96, 66, 32, 12, 140,
       124, 90, 59, 68, 229, 69, 255, 87, 70, 53, 205, 50, 137, 108>>>>,
     <<<<60, 74, 57, 49, 61, 48, 105, 67, 51, 96>>,
       <<51, 54, 49, 50, 51, 52, 53, 54, 55, 56, 57, 48, 49, 50, 51, 52, 53, 54, 55, 56,
       57, 48, 49, 50, 51, 52, 53, 54, 55, 56, 57, 48, 49, 50, 51, 52, 53, 54>>,
       <<204, 185, 202, 152, 123, 15, 89, 88, 188, 47, 53, 41, 20, 165, 176, 246, 131,
       194, 227, 112, 92, 238, 154, 193, 239, 49, 244, 142, 63, 236, 57, 199>>>>,
     <<<<60, 74, 57, 49, 61, 48, 105, 67, 51, 96>>,
       <<51, 54, 98, 99, 100, 101, 102, 103, 104, 105, 106, 107, 108, 109, 110, 111, 112,
       113, 114, 115, 116, 117, 118, 119, 120, 121, 122, 97, 98, 99, 100, 101, 102, 103,
       104, 105, 106, 107>>,
       <<181, 153, 106, 161, 106, 209, 139, 164, 227, 243, 211, 150, 154, 87, 26, 108,
       172, 85, 111, 217, 125, 15, 174, 108, 136, 103, 171, 219, 191, 33, 86, 63>>>>,
     <<<<60, 74, 57, 49, 61, 48, 105, 67, 51, 96>>,
       <<51, 55, 49, 50, 51, 52, 53, 54, 55, 56, 57, 48, 49, 50, 51, 52, 53, 54, 55, 56,
       57, 48, 49, 50, 51, 52, 53, 54, 55, 56, 57, 48, 49, 50, 51, 52, 53, 54, 55>>,
       <<198, 112, 4, 185, 196, 197, 117, 63, 46, 215, 246, 86, 21, 0, 32, 227, 12, 233,
       156, 121, 16, 125, 91, 138, 140, 170, 56, 97, 9, 183, 230, 155>>>>,
     <<<<60, 74, 57, 49, 61, 48, 105, 67, 51, 96>>,
       <<51, 55, 98, 99, 100, 101, 102, 103, 104, 105, 106, 107, 108, 109, 110, 111, 112,
       113, 114, 115, 116, 117, 118, 119, 120, 121, 122, 97, 98, 99, 100, 101, 102, 103,
       104, 105, 106, 107, 108>>,
       <<169, 212, 169, 40, 185, 98, 138, 149, 0, 115, 48, 116, 31, 75, 71, 94, 54, 187,
       133, 44, 102, 10, 63, 13, 136, 231, 193, 107, 226, 144, 227, 64>>>>,
     <<<<60, 74, 57, 49, 61, 48, 105, 67, 51, 96>>,
       <<51, 56, 49, 50, 51, 52, 53, 54, 55, 56, 57, 48, 49, 50, 51, 52, 53, 54, 55, 56,
       57, 48, 49, 50, 51, 52, 53, 54, 55, 56, 57, 48, 49, 50, 51, 52, 53, 54, 55, 56>>,
       <<156, 87, 47, 30, 193, 103, 11, 217, 98, 167, 172, 3, 149, 25, 102, 91, 212, 36,
       91, 164, 189, 102, 37, 179, 253, 54, 87, 29, 242, 53, 231, 3>>>>,
     <<<<60, 74, 57, 49, 61, 48, 105, 67, 51, 96>>,
       <<51, 56, 98, 99, 100, 101, 102, 103, 104, 105, 106, 107, 108, 109, 110, 111, 112,
       113, 114, 115, 116, 117, 118, 119, 120, 121, 122, 97, 98, 99, 100, 101, 102, 103,
       104, 105, 106, 107, 108, 109>>,
       <<78, 206, 191, 108, 9, 247, 236, 92, 177, 203, 231, 193, 113, 68, 157, 133, 70,
       75, 121, 67, 110, 161, 128, 101, 183, 188, 198, 208, 198, 200, 199, 80>>>>,
     <<<<60, 74, 57, 49, 61, 48, 105, 67, 51, 96>>,
       <<51, 57, 49, 50, 51, 52, 53, 54, 55, 56, 57, 48, 49, 50, 51, 52, 53, 54, 55, 56,
       57, 48, 49, 50, 51, 52, 53, 54, 55, 56, 57, 48, 49, 50, 51, 52, 53, 54, 55, 56,
       57>>,
       <<121, 158, 122, 98, 62, 187, 228, 155, 53, 215, 214, 92, 70, 148, 207, 8, 117,
       225, 130, 254, 58, 219, 182, 84, 231, 78, 242, 187, 65, 166, 211, 180>>>>,
     <<<<60, 74, 57, 49, 61, 48, 105, 67, 51, 96>>,
       <<51, 57, 98, 99, 100, 101, 102, 103, 104, 105, 106, 107, 108, 109, 110, 111, 112,
       113, 114, 115, 116, 117, 118, 119, 120, 121, 122, 97, 98, 99, 100, 101, 102, 103,
       104, 105, 106, 107, 108, 109, 110>>,
       <<222, 64, 11, 34, 118, 114, 144, 241, 23, 35, 0, 67, 164, 128, 50, 14, 141, 119,
       192, 117, 122, 7, 157, 223, 73, 187, 226, 241, 254, 114, 65, 92>>>>,
     <<<<60, 74, 57, 49, 61, 48, 105, 67, 51, 96>>,
       <<52, 48, 49, 50, 51, 52, 53, 54, 55, 56, 57, 48, 49, 50, 51, 52, 53, 54, 55, 56,
       57, 48, 49, 50, 51, 52, 53, 54, 55, 56, 57, 48, 49, 50, 51, 52, 53, 54, 55, 56, 57,
       48>>,
       <<101, 69, 72, 5, 228, 142, 50, 49, 134, 242, 81, 85, 49, 155, 17, 21, 254, 159,
       41, 230, 86, 247, 76, 247, 95, 173, 85, 61, 205, 216, 196, 84>>>>,
     <<<<60, 74, 57, 49, 61, 48, 105, 67, 51, 96>>,
       <<52, 48, 98, 99, 100, 101, 102, 103, 104, 105, 106, 107, 108, 109, 110, 111, 112,
       113, 114, 115, 116, 117, 118, 119, 120, 121, 122, 97, 98, 99, 100, 101, 102, 103,
       104, 105, 106, 107, 108, 109, 110, 111>>,
       <<166, 185, 2, 178, 185, 1, 112, 222, 237, 112, 27, 58, 35, 41, 192, 236, 115, 74,
       164, 140, 110, 105, 246, 239, 2, 216, 7, 147, 252, 240, 246, 70>>>>,
     <<<<60, 74, 57, 49, 61, 48, 105, 67, 51, 96>>,
       <<52, 49, 48, 52, 120, 57, 42, 49, 86, 123, 53, 108, 104>>,
       <<221, 69, 119, 138, 228, 92, 120, 228, 183, 166, 207, 72, 48, 211, 201, 247, 14,
       125, 118, 198, 222, 243, 50, 40, 49, 49, 128, 11, 175, 93, 183, 95>>>>,
     <<<<60, 74, 57, 49, 61, 48, 105, 67, 51, 96>>,
       <<52, 49, 49, 50, 51, 52, 53, 54, 55, 56, 57, 48, 49, 50, 51, 52, 53, 54, 55, 56,
       57, 48, 49, 50, 51, 52, 53, 54, 55, 56, 57, 48, 49, 50, 51, 52, 53, 54, 55, 56, 57,
       48, 49>>,
       <<38, 31, 143, 235, 36, 211, 170, 114, 18, 149, 66, 185, 145, 2, 248, 194, 13, 178,
       34, 152, 148, 138, 206, 45, 9, 220, 209, 199, 255, 212, 100, 185>>>>,
     <<<<60, 74, 57, 49, 61, 48, 105, 67, 51, 96>>,
       <<52, 49, 98, 99, 100, 101, 102, 103, 104, 105, 106, 107, 108, 109, 110, 111, 112,
       113, 114, 115, 116, 117, 118, 119, 120, 121, 122, 97, 98, 99, 100, 101, 102, 103,
       104, 105, 106, 107, 108, 109, 110, 111, 112>>,
       <<154, 161, 236, 223, 31, 31, 131, 244, 204, 164, 147, 102, 243, 202, 195, 125,
       116, 85, 39, 153, 179, 46, 4, 192, 253, 242, 160, 236, 103, 120, 105, 45>>>>,
     <<<<60, 74, 57, 49, 61, 48, 105, 67, 51, 96>>,
       <<52, 50, 49, 50, 51, 52, 53, 54, 55, 56, 57, 48, 49, 50, 51, 52, 53, 54, 55, 56,
       57, 48, 49, 50, 51, 52, 53, 54, 55, 56, 57, 48, 49, 50, 51, 52, 53, 54, 55, 56, 57,
       48, 49, 50>>,
       <<79, 119, 188, 233, 51, 244, 133, 123, 254, 112, 93, 168, 244, 162, 64, 114, 62,
       247, 85, 110, 111, 175, 191, 65, 54, 38, 51, 184, 237, 177, 142, 19>>>>,
     <<<<60, 74, 57, 49, 61, 48, 105, 67, 51, 96>>,
       <<52, 50, 98, 99, 100, 101, 102, 103, 104, 105, 106, 107, 108, 109, 110, 111, 112,
       113, 114, 115, 116, 117, 118, 119, 120, 121, 122, 97, 98, 99, 100, 101, 102, 103,
       104, 105, 106, 107, 108, 109, 110, 111, 112, 113>>,
       <<10, 111, 178, 223, 130, 72, 175, 127, 243, 206, 25, 94, 233, 120, 62, 71, 47,
       154, 161, 200, 52, 187, 7, 0, 247, 50, 93, 241, 66, 21, 163, 203>>>>,
     <<<<60, 74, 57, 49, 61, 48, 105, 67, 51, 96>>,
       <<52, 51, 49, 50, 51, 52, 53, 54, 55, 56, 57, 48, 49, 50, 51, 52, 53, 54, 55, 56,
       57, 48, 49, 50, 51, 52, 53, 54, 55, 56, 57, 48, 49, 50, 51, 52, 53, 54, 55, 56, 57,
       48, 49, 50, 51>>,
       <<170, 184, 103, 85, 115, 237, 120, 84, 149, 189, 126, 227, 148, 94, 72, 100, 69,
       92, 13, 175, 186, 199, 229, 23, 88, 106, 197, 207, 48, 229, 159, 18>>>>,
     <<<<60, 74, 57, 49, 61, 48, 105, 67, 51, 96>>,
       <<52, 51, 98, 99, 100, 101, 102, 103, 104, 105, 106, 107, 108, 109, 110, 111, 112,
       113, 114, 115, 116, 117, 118, 119, 120, 121, 122, 97, 98, 99, 100, 101, 102, 103,
       104, 105, 106, 107, 108, 109, 110, 111, 112, 113, 114>>,
       <<125, 251, 19, 65, 155, 71, 51, 46, 161, 126, 245, 54, 18, 163, 170, 102, 45, 61,
       119, 178, 68, 25, 89, 30, 37, 142, 115, 91, 227, 35, 217, 76>>>>,
     <<<<60, 74, 57, 49, 61, 48, 105, 67, 51, 96>>,
       <<52, 52, 49, 50, 51, 52, 53, 54, 55, 56, 57, 48, 49, 50, 51, 52, 53, 54, 55, 56,
       57, 48, 49, 50, 51, 52, 53, 54, 55, 56, 57, 48, 49, 50, 51, 52, 53, 54, 55, 56, 57,
       48, 49, 50, 51, 52>>,
       <<43, 188, 182, 131, 74, 149, 186, 40, 99, 215, 66, 36, 239, 52, 95, 207, 158, 151,
       44, 45, 140, 189, 45, 51, 68, 59, 246, 236, 54, 95, 116, 244>>>>,
     <<<<60, 74, 57, 49, 61, 48, 105, 67, 51, 96>>,
       <<52, 52, 98, 99, 100, 101, 102, 103, 104, 105, 106, 107, 108, 109, 110, 111, 112,
       113, 114, 115, 116, 117, 118, 119, 120, 121, 122, 97, 98, 99, 100, 101, 102, 103,
       104, 105, 106, 107, 108, 109, 110, 111, 112, 113, 114, 115>>,
       <<149, 172, 161, 194, 199, 201, 167, 92, 89, 56, 154, 246, 132, 229, 245, 93, 21,
       30, 55, 174, 227, 249, 132, 183, 236, 161, 150, 168, 0, 67, 28, 70>>>>,
     <<<<60, 74, 57, 49, 61, 48, 105, 67, 51, 96>>,
       <<52, 53, 49, 50, 51, 52, 53, 54, 55, 56, 57, 48, 49, 50, 51, 52, 53, 54, 55, 56,
       57, 48, 49, 50, 51, 52, 53, 54, 55, 56, 57, 48, 49, 50, 51, 52, 53, 54, 55, 56, 57,
       48, 49, 50, 51, 52, 53>>,
       <<159, 232, 139, 12, 219, 62, 85, 222, 9, 220, 31, 231, 185, 18, 198, 10, 81, 12,
       240, 240, 195, 178, 184, 135, 17, 242, 163, 61, 209, 70, 17, 12>>>>,
     <<<<60, 74, 57, 49, 61, 48, 105, 67, 51, 96>>,
       <<52, 53, 98, 99, 100, 101, 102, 103, 104, 105, 106, 107, 108, 109, 110, 111, 112,
       113, 114, 115, 116, 117, 118, 119, 120, 121, 122, 97, 98, 99, 100, 101, 102, 103,
       104, 105, 106, 107, 108, 109, 110, 111, 112, 113, 114, 115, 116>>,
       <<150, 14, 39, 165, 209, 247, 93, 68, 134, 132, 46, 62, 173, 218, 23, 55, 12, 145,
       253, 158, 40, 82, 97, 168, 26, 159, 37, 28, 77, 159, 34, 227>>>>,
     <<<<60, 74, 57, 49, 61, 48, 105, 67, 51, 96>>,
       <<52, 54, 49, 50, 51, 52, 53, 54, 55, 56, 57, 48, 49, 50, 51, 52, 53, 54, 55, 56,
       57, 48, 49, 50, 51, 52, 53, 54, 55, 56, 57, 48, 49, 50, 51, 52, 53, 54, 55, 56, 57,
       48, 49, 50, 51, 52, 53, 54>>,
       <<129, 36, 86, 60, 115, 210, 107, 11, 171, 41, 85, 169, 88, 194, 88, 243, 232, 215,
       178, 39, 192, 150, 154, 216, 111, 240, 97, 27, 104, 143, 19, 169>>>>,
     <<<<60, 74, 57, 49, 61, 48, 105, 67, 51, 96>>,
       <<52, 54, 98, 99, 100, 101, 102, 103, 104, 105, 106, 107, 108, 109, 110, 111, 112,
       113, 114, 115, 116, 117, 118, 119, 120, 121, 122, 97, 98, 99, 100, 101, 102, 103,
       104, 105, 106, 107, 108, 109, 110, 111, 112, 113, 114, 115, 116, 117>>,
       <<37, 60, 199, 193, 192, 215, 47, 160, 191, 105, 8, 219, 107, 255, 155, 75, 143,
       18, 110, 253, 72, 230, 23, 135, 36, 250, 230, 178, 53, 200, 178, 165>>>>,
     <<<<60, 74, 57, 49, 61, 48, 105, 67, 51, 96>>,
       <<56, 49, 50, 51, 52, 53, 54, 55, 56>>,
       <<123, 63, 33, 52, 85, 174, 80, 242, 199, 16, 43, 141, 208, 135, 8, 126, 132, 58,
       93, 158, 22, 119, 44, 182, 203, 145, 198, 159, 159, 14, 55, 170>>>>,
     <<<<60, 74, 57, 49, 61, 48, 105, 67, 51, 96>>,
       <<56, 98, 99, 100, 101, 102, 103, 104, 105>>,
       <<250, 148, 193, 99, 23, 101, 107, 189, 125, 146, 250, 38, 82, 158, 223, 142, 28,
       198, 245, 182, 222, 75, 213, 184, 182, 83, 113, 40, 145, 203, 155, 197>>>>,
     <<<<60, 74, 57, 49, 61, 48, 105, 67, 51, 96>>,
       <<56, 99, 100, 101, 102, 103, 104, 105, 106>>,
       <<219, 185, 39, 131, 196, 42, 151, 16, 36, 228, 215, 40, 118, 72, 78, 207, 196,
       234, 96, 34, 35, 198, 153, 241, 95, 54, 214, 202, 51, 228, 156, 41>>>>,
     <<<<60, 74, 57, 49, 61, 48, 105, 67, 51, 96>>,
       <<56, 195, 169, 195, 169, 195, 169, 195, 169>>,
       <<147, 89, 76, 38, 65, 36, 150, 137, 12, 250, 29, 120, 212, 74, 122, 105, 231, 164,
       125, 95, 125, 101, 101, 7, 243, 204, 25, 83, 18, 132, 247, 92>>>>,
     <<<<60, 74, 57, 49, 61, 48, 105, 67, 51, 96>>,
       <<57, 32, 98, 99, 100, 101, 102, 103, 104, 105>>,
       <<198, 231, 168, 251, 156, 123, 50, 80, 76, 165, 13, 248, 117, 68, 236, 12, 23, 88,
       204, 127, 127, 69, 194, 181, 186, 125, 62, 232, 172, 136, 217, 237>>>>,
     <<<<60, 74, 57, 49, 61, 48, 105, 67, 51, 96>>,
       <<57, 49, 50, 51, 52, 53, 54, 55, 56, 57>>,
       <<149, 84, 8, 175, 7, 186, 62, 25, 252, 20, 133, 235, 99, 174, 183, 0, 177, 234,
       214, 121, 107, 229, 110, 118, 174, 82, 153, 170, 170, 40, 32, 76>>>>,
     <<<<60, 74, 57, 49, 61, 48, 105, 67, 51, 96>>,
       <<57, 56, 98, 99, 100, 101, 102, 103, 104, 105>>,
       <<175, 109, 62, 143, 253, 71, 248, 40, 182, 111, 62, 199, 82, 202, 12, 61, 45, 142,
       230, 52, 86, 131, 204, 146, 245, 6, 161, 156, 16, 28, 215, 241>>>>,
     <<<<60, 74, 57, 49, 61, 48, 105, 67, 51, 96>>,
       <<57, 98, 99, 100, 101, 102, 103, 104, 105, 32>>,
       <<167, 239, 243, 78, 14, 175, 12, 92, 162, 175, 157, 174, 67, 1, 53, 218, 212, 6,
       4, 195, 1, 232, 100, 83, 187, 119, 145, 153, 192, 146, 185, 2>>>>,
     <<<<60, 74, 57, 49, 61, 48, 105, 67, 51, 96>>,
       <<57, 98, 99, 100, 101, 102, 103, 104, 105, 106>>,
       <<215, 82, 225, 208, 163, 226, 170, 58, 233, 90, 8, 221, 28, 97, 20, 164, 18, 159,
       60, 228, 66, 237, 131, 111, 100, 40, 222, 160, 60, 33, 255, 183>>>>,
     <<<<93, 108, 69, 126, 87, 69, 120, 90, 52, 54, 56, 116, 121, 123, 73, 53, 109, 116,
       103, 91>>,
       <<49, 49, 54, 69, 120, 97, 109, 112, 108, 101, 32, 69, 108, 101, 111, 110, 111,
       114, 97>>,
       <<15, 138, 123, 246, 25, 39, 145, 46, 17, 199, 101, 65, 76, 7, 64, 105, 128, 186,
       211, 160, 236, 35, 4, 149, 165, 52, 115, 130, 128, 76, 43, 213>>>>,
     <<<<93, 108, 69, 126, 87, 69, 120, 90, 52, 54, 56, 116, 121, 123, 73, 53, 109, 116,
       103, 91>>,
       <<49, 54, 69, 120, 97, 109, 112, 108, 101, 32, 69, 108, 101, 111, 110, 111, 114,
       97>>,
       <<178, 114, 142, 12, 84, 152, 235, 96, 167, 133, 24, 69, 125, 53, 225, 88, 45, 253,
       251, 194, 207, 70, 187, 49, 201, 67, 243, 116, 206, 127, 92, 148>>>>,
     <<<<93, 108, 69, 126, 87, 69, 120, 90, 52, 54, 56, 116, 121, 123, 73, 53, 109, 116,
       103, 91>>,
       <<50, 49, 54, 69, 120, 97, 109, 112, 108, 101, 32, 69, 108, 101, 111, 110, 111,
       114, 97>>,
       <<77, 244, 24, 73, 31, 82, 205, 216, 30, 236, 73, 23, 32, 195, 201, 55, 169, 238,
       143, 98, 208, 90, 116, 5, 109, 98, 58, 22, 150, 229, 85, 97>>>>,
     <<<<93, 108, 69, 126, 87, 69, 120, 90, 52, 54, 56, 116, 121, 123, 73, 53, 109, 116,
       103, 91>>,
       <<51, 49, 54, 69, 120, 97, 109, 112, 108, 101, 32, 69, 108, 101, 111, 110, 111,
       114, 97>>,
       <<44, 155, 99, 234, 154, 55, 122, 228, 162, 238, 145, 14, 239, 24, 193, 68, 137,
       224, 233, 225, 151, 195, 47, 137, 104, 139, 78, 22, 148, 97, 160, 219>>>>,
     <<<<93, 108, 69, 126, 87, 69, 120, 90, 52, 54, 56, 116, 121, 123, 73, 53, 109, 116,
       103, 91>>,
       <<52, 49, 54, 69, 120, 97, 109, 112, 108, 101, 32, 69, 108, 101, 111, 110, 111,
       114, 97>>,
       <<3, 216, 204, 119, 188, 156, 134, 103, 166, 175, 115, 209, 234, 43, 63, 68, 62,
       225, 60, 17, 25, 21, 253, 131, 255, 44, 119, 45, 194, 126, 20, 53>>>>,
     <<<<98, 99, 100, 101, 102, 103, 104, 105>>,
       <<49, 48, 49, 50, 51, 52, 53, 54, 55, 56, 57, 48>>,
       <<24, 2, 150, 243, 17, 141, 90, 52, 76, 192, 219, 236, 222, 162, 105, 190, 26, 5,
       229, 13, 166, 69, 34, 159, 182, 169, 181, 222, 93, 245, 241, 225>>>>,
     <<<<98, 99, 100, 101, 102, 103, 104, 105>>,
       <<49, 48, 52, 120, 57, 42, 49, 86, 123, 53, 108, 104>>,
       <<94, 26, 43, 153, 242, 171, 71, 82, 81, 109, 24, 131, 173, 63, 94, 143, 125, 8,
       21, 6, 188, 254, 203, 131, 250, 122, 73, 240, 253, 253, 21, 208>>>>,
     <<<<98, 99, 100, 101, 102, 103, 104, 105>>,
       <<49, 48, 60, 74, 57, 49, 61, 48, 105, 67, 51, 96>>,
       <<165, 31, 251, 86, 176, 121, 108, 180, 91, 165, 167, 51, 119, 240, 142, 20, 186,
       213, 9, 7, 195, 155, 3, 70, 117, 91, 129, 215, 104, 8, 64, 248>>>>,
     <<<<98, 99, 100, 101, 102, 103, 104, 105>>,
       <<49, 48, 98, 99, 100, 101, 102, 103, 104, 105, 106, 107>>,
       <<19, 58, 17, 55, 2, 201, 209, 79, 196, 122, 229, 44, 133, 13, 164, 121, 110, 112,
       31, 198, 119, 44, 106, 179, 73, 90, 111, 88, 142, 42, 187, 236>>>>,
     <<<<98, 99, 100, 101, 102, 103, 104, 105>>,
       <<49, 49, 48, 52, 120, 57, 42, 49, 86, 123, 53, 108, 104>>,
       <<80, 237, 236, 158, 79, 106, 83, 216, 227, 94, 238, 79, 121, 47, 60, 16, 249, 241,
       252, 156, 65, 218, 82, 199, 162, 122, 217, 128, 162, 240, 180, 151>>>>,
     <<<<98, 99, 100, 101, 102, 103, 104, 105>>,
       <<49, 49, 49, 50, 51, 52, 53, 54, 55, 56, 57, 48, 49>>,
       <<197, 196, 63, 39, 31, 54, 188, 250, 207, 0, 191, 26, 49, 149, 240, 191, 140, 43,
       57, 168, 26, 163, 33, 82, 67, 206, 203, 237, 49, 197, 223, 253>>>>,
     <<<<98, 99, 100, 101, 102, 103, 104, 105>>,
       <<49, 49, 98, 99, 100, 101, 102, 103, 104, 105, 106, 107, 108>>,
       <<48, 150, 114, 208, 220, 55, 49, 219, 45, 92, 215, 109, 129, 217, 19, 230, 55,
       110, 65, 117, 72, 96, 207, 72, 252, 153, 108, 104, 119, 216, 165, 168>>>>,
     <<<<98, 99, 100, 101, 102, 103, 104, 105>>,
       <<49, 50, 49, 50, 51, 52, 53, 54, 55, 56, 57, 48, 49, 50>>,
       <<17, 127, 255, 90, 153, 214, 135, 47, 2, 9, 48, 106, 126, 14, 123, 133, 82, 25,
       62, 149, 125, 145, 234, 93, 208, 11, 14, 176, 12, 226, 88, 11>>>>,
     <<<<98, 99, 100, 101, 102, 103, 104, 105>>,
       <<49, 50, 98, 99, 100, 101, 102, 103, 104, 105, 106, 107, 108, 109>>,
       <<48, 89, 246, 111, 100, 225, 220, 129, 15, 19, 247, 164, 45, 214, 209, 143, 146,
       85, 102, 18, 59, 32, 68, 245, 22, 234, 40, 120, 184, 72, 136, 14>>>>,
     <<<<98, 99, 100, 101, 102, 103, 104, 105>>,
       <<49, 51, 49, 50, 51, 52, 53, 54, 55, 56, 57, 48, 49, 50, 51>>,
       <<186, 103, 38, 134, 47, 90, 231, 222, 234, 29, 42, 25, 214, 247, 29, 59, 158, 134,
       187, 114, 58, 226, 2, 242, 179, 210, 33, 208, 85, 207, 179, 247>>>>,
     <<<<98, 99, 100, 101, 102, 103, 104, 105>>,
       <<49, 51, 98, 99, 100, 101, 102, 103, 104, 105, 106, 107, 108, 109, 110>>,
       <<207, 150, 84, 251, 55, 176, 89, 72, 179, 126, 0, 247, 73, 122, 134, 98, 63, 163,
       238, 251, 87, 109, 136, 171, 134, 149, 130, 235, 22, 150, 86, 59>>>>,
     <<<<98, 99, 100, 101, 102, 103, 104, 105>>,
       <<49, 52, 49, 50, 51, 52, 53, 54, 55, 56, 57, 48, 49, 50, 51, 52>>,
       <<21, 50, 239, 160, 108, 25, 29, 171, 18, 126, 163, 217, 170, 159, 91, 52, 199,
       221, 0, 139, 116, 180, 84, 217, 68, 206, 93, 82, 199, 90, 140, 239>>>>,
     <<<<98, 99, 100, 101, 102, 103, 104, 105>>,
       <<49, 52, 98, 99, 100, 101, 102, 103, 104, 105, 106, 107, 108, 109, 110, 111>>,
       <<216, 9, 248, 40, 246, 73, 110, 42, 186, 203, 129, 228, 213, 252, 137, 50, 214,
       216, 184, 125, 203, 207, 22, 124, 251, 2, 224, 117, 151, 65, 38, 43>>>>,
     <<<<98, 99, 100, 101, 102, 103, 104, 105>>,
       <<49, 53, 49, 50, 51, 52, 53, 54, 55, 56, 57, 48, 49, 50, 51, 52, 53>>,
       <<194, 139, 166, 140, 39, 98, 247, 86, 181, 74, 221, 57, 146, 198, 189, 160, 239,
       154, 12, 104, 94, 230, 221, 48, 117, 5, 45, 59, 72, 43, 162, 81>>>>,
     <<<<98, 99, 100, 101, 102, 103, 104, 105>>,
       <<49, 53, 98, 99, 100, 101, 102, 103, 104, 105, 106, 107, 108, 109, 110, 111, 112>>,
       <<178, 226, 230, 44, 105, 210, 157, 56, 52, 97, 219, 140, 93, 162, 167, 215, 49,
       191, 186, 49, 90, 65, 176, 28, 192, 116, 227, 252, 105, 86, 169, 82>>>>,
     <<<<98, 99, 100, 101, 102, 103, 104, 105>>,
       <<49, 54, 49, 50, 51, 52, 53, 54, 55, 56, 57, 48, 49, 50, 51, 52, 53, 54>>,
       <<32, 23, 158, 154, 147, 190, 125, 103, 198, 73, 99, 181, 166, 193, 152, 254, 230,
       9, 3, 99, 247, 33, 226, 128, 79, 231, 223, 224, 45, 134, 178, 14>>>>,
     <<<<98, 99, 100, 101, 102, 103, 104, 105>>,
       <<49, 54, 98, 99, 100, 101, 102, 103, 104, 105, 106, 107, 108, 109, 110, 111, 112,
       113>>,
       <<99, 63, 150, 56, 155, 164, 70, 188, 12, 188, 21, 240, 40, 153, 71, 185, 59, 9,
       138, 15, 112, 192, 132, 211, 230, 142, 63, 200, 66, 255, 23, 205>>>>,
     <<<<98, 99, 100, 101, 102, 103, 104, 105>>,
       <<49, 55, 49, 50, 51, 52, 53, 54, 55, 56, 57, 48, 49, 50, 51, 52, 53, 54, 55>>,
       <<8, 108, 15, 217, 157, 101, 94, 196, 12, 232, 25, 198, 98, 13, 24, 77, 178, 72,
       12, 213, 83, 153, 42, 90, 218, 84, 217, 171, 85, 94, 123, 139>>>>,
     <<<<98, 99, 100, 101, 102, 103, 104, 105>>,
       <<49, 55, 98, 99, 100, 101, 102, 103, 104, 105, 106, 107, 108, 109, 110, 111, 112,
       113, 114>>,
       <<168, 61, 246, 29, 110, 157, 32, 37, 54, 196, 233, 229, 174, 121, 169, 154, 248,
       193, 19, 202, 66, 69, 248, 118, 93, 179, 17, 183, 218, 157, 45, 63>>>>,
     <<<<98, 99, 100, 101, 102, 103, 104, 105>>,
       <<49, 56, 49, 50, 51, 52, 53, 54, 55, 56, 57, 48, 49, 50, 51, 52, 53, 54, 55, 56>>,
       <<156, 206, 0, 93, 50, 108, 195, 125, 209, 139, 154, 100, 127, 141, 168, 47, 250,
       212, 83, 244, 98, 20, 93, 194, 186, 8, 217, 39, 169, 94, 61, 197>>>>,
     <<<<98, 99, 100, 101, 102, 103, 104, 105>>,
       <<49, 56, 98, 99, 100, 101, 102, 103, 104, 105, 106, 107, 108, 109, 110, 111, 112,
       113, 114, 115>>,
       <<185, 166, 177, 193, 130, 138, 138, 131, 251, 196, 21, 94, 98, 73, 224, 154, 92,
       40, 235, 3, 38, 15, 52, 225, 253, 153, 188, 42, 1, 135, 208, 55>>>>,
     <<<<98, 99, 100, 101, 102, 103, 104, 105>>,
       <<49, 57, 49, 50, 51, 52, 53, 54, 55, 56, 57, 48, 49, 50, 51, 52, 53, 54, 55, 56,
       57>>,
       <<63, 16, 49, 87, 234, 193, 5, 61, 234, 231, 211, 88, 159, 224, 129, 175, 149, 33,
       234, 236, 241, 224, 9, 136, 137, 8, 87, 115, 107, 116, 151, 160>>>>,
     <<<<98, 99, 100, 101, 102, 103, 104, 105>>,
       <<49, 57, 98, 99, 100, 101, 102, 103, 104, 105, 106, 107, 108, 109, 110, 111, 112,
       113, 114, 115, 116>>,
       <<168, 44, 236, 252, 180, 209, 53, 124, 83, 140, 92, 240, 189, 151, 204, 117, 122,
       195, 250, 212, 80, 232, 97, 21, 176, 190, 125, 133, 1, 204, 150, 0>>>>,
     <<<<98, 99, 100, 101, 102, 103, 104, 105>>,
       <<50, 48, 49, 50, 51, 52, 53, 54, 55, 56, 57, 48, 49, 50, 51, 52, 53, 54, 55, 56,
       57, 48>>,
       <<164, 240, 214, 152, 163, 161, 151, 194, 59, 232, 8, 139, 107, 150, 95, 180, 109,
       120, 178, 149, 96, 252, 47, 73, 176, 15, 134, 8, 154, 195, 122, 236>>>>,
     <<<<98, 99, 100, 101, 102, 103, 104, 105>>,
       <<50, 48, 98, 99, 100, 101, 102, 103, 104, 105, 106, 107, 108, 109, 110, 111, 112,
       113, 114, 115, 116, 117>>,
       <<141, 154, 206, 143, 96, 254, 55, 14, 219, 22, 216, 236, 80, 163, 255, 98, 125,
       166, 156, 6, 74, 126, 7, 180, 149, 99, 196, 242, 229, 41, 167, 207>>>>,
     <<<<98, 99, 100, 101, 102, 103, 104, 105>>,
       <<50, 49, 48, 52, 120, 57, 42, 49, 86, 123, 53, 108, 104>>,
       <<249, 174, 45, 224, 244, 249, 9, 65, 236, 83, 178, 192, 53, 210, 128, 231, 209,
       106, 207, 169, 72, 88, 75, 0, 67, 195, 179, 8, 145, 173, 34, 25>>>>,
     <<<<98, 99, 100, 101, 102, 103, 104, 105>>,
       <<50, 49, 49, 50, 51, 52, 53, 54, 55, 56, 57, 48, 49, 50, 51, 52, 53, 54, 55, 56,
       57, 48, 49>>,
       <<119, 189, 101, 74, 218, 191, 138, 221, 51, 162, 135, 52, 113, 106, 50, 59, 226,
       182, 79, 70, 24, 101, 27, 234, 142, 187, 70, 245, 213, 128, 191, 130>>>>,
     <<<<98, 99, 100, 101, 102, 103, 104, 105>>,
       <<50, 49, 98, 99, 100, 101, 102, 103, 104, 105, 106, 107, 108, 109, 110, 111, 112,
       113, 114, 115, 116, 117, 118>>,
       <<14, 140, 237, 253, 169, 64, 170, 171, 3, 35, 75, 168, 170, 172, 229, 252, 157,
       114, 40, 235, 204, 134, 91, 186, 14, 185, 157, 136, 6, 105, 214, 89>>>>,
     <<<<98, 99, 100, 101, 102, 103, 104, 105>>,
       <<50, 50, 49, 50, 51, 52, 53, 54, 55, 56, 57, 48, 49, 50, 51, 52, 53, 54, 55, 56,
       57, 48, 49, 50>>,
       <<51, 244, 126, 93, 62, 135, 183, 205, 140, 157, 35, 62, 255, 66, 216, 16, 26, 20,
       157, 49, 207, 135, 136, 19, 48, 96, 17, 172, 14, 217, 138, 56>>>>,
     <<<<98, 99, 100, 101, 102, 103, 104, 105>>,
       <<50, 50, 98, 99, 100, 101, 102, 103, 104, 105, 106, 107, 108, 109, 110, 111, 112,
       113, 114, 115, 116, 117, 118, 119>>,
       <<72, 195, 44, 163, 66, 142, 191, 33, 246, 131, 37, 99, 144, 240, 163, 142, 53, 27,
       166, 35, 237, 186, 26, 105, 164, 20, 108, 7, 174, 110, 7, 219>>>>,
     <<<<98, 99, 100, 101, 102, 103, 104, 105>>,
       <<50, 51, 49, 50, 51, 52, 53, 54, 55, 56, 57, 48, 49, 50, 51, 52, 53, 54, 55, 56,
       57, 48, 49, 50, 51>>,
       <<100, 134, 64, 81, 34, 213, 174, 26, 98, 86, 15, 96, 107, 142, 132, 57, 169, 137,
       95, 46, 16, 167, 118, 45, 123, 36, 118, 131, 74, 209, 144, 96>>>>,
     <<<<98, 99, 100, 101, 102, 103, 104, 105>>,
       <<50, 51, 98, 99, 100, 101, 102, 103, 104, 105, 106, 107, 108, 109, 110, 111, 112,
       113, 114, 115, 116, 117, 118, 119, 120>>,
       <<217, 150, 193, 134, 243, 82, 226, 186, 113, 214, 60, 75, 165, 188, 168, 205, 113,
       159, 63, 37, 207, 138, 101, 125, 181, 190, 33, 254, 138, 41, 246, 107>>>>,
     <<<<98, 99, 100, 101, 102, 103, 104, 105>>,
       <<50, 52, 49, 50, 51, 52, 53, 54, 55, 56, 57, 48, 49, 50, 51, 52, 53, 54, 55, 56,
       57, 48, 49, 50, 51, 52>>,
       <<9, 166, 206, 123, 236, 235, 28, 39, 40, 202, 77, 242, 244, 35, 229, 68, 137, 195,
       199, 97, 1, 235, 139, 154, 251, 41, 173, 98, 196, 149, 71, 8>>>>,
     <<<<98, 99, 100, 101, 102, 103, 104, 105>>,
       <<50, 52, 98, 99, 100, 101, 102, 103, 104, 105, 106, 107, 108, 109, 110, 111, 112,
       113, 114, 115, 116, 117, 118, 119, 120, 121>>,
       <<197, 197, 186, 215, 240, 174, 215, 200, 199, 235, 222, 63, 140, 240, 201, 124, 5,
       98, 239, 168, 76, 98, 15, 77, 38, 220, 191, 108, 185, 216, 97, 149>>>>,
     <<<<98, 99, 100, 101, 102, 103, 104, 105>>,
       <<50, 53, 49, 50, 51, 52, 53, 54, 55, 56, 57, 48, 49, 50, 51, 52, 53, 54, 55, 56,
       57, 48, 49, 50, 51, 52, 53>>,
       <<93, 164, 105, 98, 48, 4, 184, 230, 87, 126, 81, 213, 133, 10, 90, 113, 234, 36,
       47, 211, 153, 13, 183, 131, 149, 174, 18, 250, 162, 85, 183, 166>>>>,
     <<<<98, 99, 100, 101, 102, 103, 104, 105>>,
       <<50, 53, 98, 99, 100, 101, 102, 103, 104, 105, 106, 107, 108, 109, 110, 111, 112,
       113, 114, 115, 116, 117, 118, 119, 120, 121, 122>>,
       <<112, 226, 182, 16, 42, 178, 24, 139, 175, 206, 106, 128, 59, 16, 222, 216, 96,
       219, 109, 135, 157, 134, 252, 185, 233, 193, 196, 71, 2, 103, 154, 40>>>>,
     <<<<98, 99, 100, 101, 102, 103, 104, 105>>,
       <<50, 54, 49, 50, 51, 52, 53, 54, 55, 56, 57, 48, 49, 50, 51, 52, 53, 54, 55, 56,
       57, 48, 49, 50, 51, 52, 53, 54>>,
       <<51, 6, 231, 176, 168, 228, 68, 114, 218, 108, 181, 105, 237, 68, 210, 200, 2,
       230, 191, 45, 97, 96, 236, 239, 168, 63, 92, 80, 226, 121, 247, 79>>>>,
     <<<<98, 99, 100, 101, 102, 103, 104, 105>>,
       <<50, 54, 98, 99, 100, 101, 102, 103, 104, 105, 106, 107, 108, 109, 110, 111, 112,
       113, 114, 115, 116, 117, 118, 119, 120, 121, 122, 97>>,
       <<145, 252, 181, 57, 5, 198, 114, 5, 34, 197, 166, 125, 52, 88, 165, 204, 225, 136,
       1, 54, 200, 126, 95, 187, 52, 214, 31, 242, 161, 147, 94, 52>>>>,
     <<<<98, 99, 100, 101, 102, 103, 104, 105>>,
       <<50, 55, 49, 50, 51, 52, 53, 54, 55, 56, 57, 48, 49, 50, 51, 52, 53, 54, 55, 56,
       57, 48, 49, 50, 51, 52, 53, 54, 55>>,
       <<85, 108, 1, 145, 42, 213, 228, 14, 246, 148, 24, 214, 244, 15, 200, 217, 29, 217,
       213, 137, 113, 140, 221, 162, 38, 89, 174, 185, 94, 193, 48, 76>>>>,
     <<<<98, 99, 100, 101, 102, 103, 104, 105>>,
       <<50, 55, 98, 99, 100, 101, 102, 103, 104, 105, 106, 107, 108, 109, 110, 111, 112,
       113, 114, 115, 116, 117, 118, 119, 120, 121, 122, 97, 98>>,
       <<198, 115, 177, 0, 164, 156, 234, 226, 40, 91, 62, 217, 254, 37, 8, 43, 211, 147,
       75, 80, 208, 163, 211, 227, 104, 170, 64, 28, 181, 232, 37, 195>>>>,
     <<<<98, 99, 100, 101, 102, 103, 104, 105>>,
       <<50, 56, 49, 50, 51, 52, 53, 54, 55, 56, 57, 48, 49, 50, 51, 52, 53, 54, 55, 56,
       57, 48, 49, 50, 51, 52, 53, 54, 55, 56>>,
       <<29, 145, 71, 33, 5, 146, 127, 85, 83, 71, 26, 137, 40, 61, 203, 73, 165, 93, 111,
       236, 66, 104, 22, 242, 58, 45, 131, 122, 28, 194, 15, 243>>>>,
     <<<<98, 99, 100, 101, 102, 103, 104, 105>>,
       <<50, 56, 98, 99, 100, 101, 102, 103, 104, 105, 106, 107, 108, 109, 110, 111, 112,
       113, 114, 115, 116, 117, 118, 119, 120, 121, 122, 97, 98, 99>>,
       <<109, 212, 198, 65, 253, 24, 14, 58, 78, 12, 126, 164, 1, 142, 157, 73, 29, 190,
       100, 71, 13, 0, 158, 53, 101, 53, 137, 134, 190, 193, 81, 0>>>>,
     <<<<98, 99, 100, 101, 102, 103, 104, 105>>,
       <<50, 57, 49, 50, 51, 52, 53, 54, 55, 56, 57, 48, 49, 50, 51, 52, 53, 54, 55, 56,
       57, 48, 49, 50, 51, 52, 53, 54, 55, 56, 57>>,
       <<246, 140, 106, 127, 195, 141, 192, 210, 11, 58, 21, 173, 173, 96, 164, 35, 31,
       41, 36, 239, 148, 236, 233, 83, 252, 163, 215, 68, 88, 171, 51, 146>>>>,
     <<<<98, 99, 100, 101, 102, 103, 104, 105>>,
       <<50, 57, 98, 99, 100, 101, 102, 103, 104, 105, 106, 107, 108, 109, 110, 111, 112,
       113, 114, 115, 116, 117, 118, 119, 120, 121, 122, 97, 98, 99, 100>>,
       <<12, 88, 35, 138, 84, 216, 12, 223, 118, 70, 20, 216, 106, 66, 102, 230, 136, 105,
       223, 14, 77, 162, 219, 93, 213, 20, 14, 228, 26, 51, 151, 147>>>>,
     <<<<98, 99, 100, 101, 102, 103, 104, 105>>,
       <<51, 48, 49, 50, 51, 52, 53, 54, 55, 56, 57, 48, 49, 50, 51, 52, 53, 54, 55, 56,
       57, 48, 49, 50, 51, 52, 53, 54, 55, 56, 57, 48>>,
       <<21, 32, 191, 71, 32, 235, 111, 75, 245, 75, 56, 78, 118, 44, 128, 62, 64, 42,
       184, 245, 64, 188, 34, 113, 205, 129, 248, 36, 89, 176, 96, 235>>>>,
     <<<<98, 99, 100, 101, 102, 103, 104, 105>>,
       <<51, 48, 98, 99, 100, 101, 102, 103, 104, 105, 106, 107, 108, 109, 110, 111, 112,
       113, 114, 115, 116, 117, 118, 119, 120, 121, 122, 97, 98, 99, 100, 101>>,
       <<173, 15, 43, 56, 170, 82, 113, 255, 4, 184, 37, 162, 210, 210, 239, 155, 61, 45,
       247, 225, 38, 145, 60, 63, 255, 48, 131, 237, 178, 238, 239, 106>>>>,
     <<<<98, 99, 100, 101, 102, 103, 104, 105>>,
       <<51, 49, 48, 52, 120, 57, 42, 49, 86, 123, 53, 108, 104>>,
       <<73, 92, 35, 63, 56, 215, 228, 133, 121, 25, 84, 37, 216, 85, 103, 121, 55, 213,
       31, 70, 36, 238, 5, 165, 90, 109, 37, 32, 24, 97, 57, 198>>>>,
     <<<<98, 99, 100, 101, 102, 103, 104, 105>>,
       <<51, 49, 49, 50, 51, 52, 53, 54, 55, 56, 57, 48, 49, 50, 51, 52, 53, 54, 55, 56,
       57, 48, 49, 50, 51, 52, 53, 54, 55, 56, 57, 48, 49>>,
       <<197, 47, 89, 22, 65, 141, 50, 78, 100, 144, 49, 181, 198, 174, 91, 170, 2, 230,
       48, 169, 47, 218, 171, 92, 36, 73, 5, 1, 237, 92, 86, 195>>>>,
     <<<<98, 99, 100, 101, 102, 103, 104, 105>>,
       <<51, 49, 98, 99, 100, 101, 102, 103, 104, 105, 106, 107, 108, 109, 110, 111, 112,
       113, 114, 115, 116, 117, 118, 119, 120, 121, 122, 97, 98, 99, 100, 101, 102>>,
       <<147, 201, 224, 224, 230, 78, 105, 243, 232, 175, 246, 191, 74, 78, 63, 241, 61,
       194, 106, 108, 12, 147, 193, 226, 184, 178, 220, 170, 8, 185, 224, 38>>>>,
     <<<<98, 99, 100, 101, 102, 103, 104, 105>>,
       <<51, 50, 49, 50, 51, 52, 53, 54, 55, 56, 57, 48, 49, 50, 51, 52, 53, 54, 55, 56,
       57, 48, 49, 50, 51, 52, 53, 54, 55, 56, 57, 48, 49, 50>>,
       <<226, 98, 204, 68, 40, 100, 143, 146, 53, 111, 178, 190, 58, 97, 166, 27, 137, 49,
       134, 47, 111, 201, 241, 217, 218, 44, 224, 162, 154, 37, 116, 172>>>>,
     <<<<98, 99, 100, 101, 102, 103, 104, 105>>,
       <<51, 50, 98, 99, 100, 101, 102, 103, 104, 105, 106, 107, 108, 109, 110, 111, 112,
       113, 114, 115, 116, 117, 118, 119, 120, 121, 122, 97, 98, 99, 100, 101, 102, 103>>,
       <<8, 178, 108, 42, 104, 71, 93, 58, 133, 40, 232, 54, 100, 251, 195, 43, 254, 215,
       189, 69, 20, 244, 168, 159, 151, 185, 61, 54, 79, 224, 71, 131>>>>,
     <<<<98, 99, 100, 101, 102, 103, 104, 105>>,
       <<51, 51, 49, 50, 51, 52, 53, 54, 55, 56, 57, 48, 49, 50, 51, 52, 53, 54, 55, 56,
       57, 48, 49, 50, 51, 52, 53, 54, 55, 56, 57, 48, 49, 50, 51>>,
       <<131, 80, 65, 152, 143, 125, 212, 195, 98, 0, 229, 252, 4, 241, 49, 60, 208, 187,
       165, 247, 29, 66, 94, 58, 144, 117, 169, 27, 40, 96, 98, 250>>>>,
     <<<<98, 99, 100, 101, 102, 103, 104, 105>>,
       <<51, 51, 98, 99, 100, 101, 102, 103, 104, 105, 106, 107, 108, 109, 110, 111, 112,
       113, 114, 115, 116, 117, 118, 119, 120, 121, 122, 97, 98, 99, 100, 101, 102, 103,
       104>>,
       <<77, 177, 180, 179, 52, 236, 3, 65, 242, 122, 111, 99, 121, 151, 248, 88, 118, 86,
       174, 84, 247, 192, 234, 232, 255, 192, 197, 116, 218, 212, 216, 156>>>>,
     <<<<98, 99, 100, 101, 102, 103, 104, 105>>,
       <<51, 52, 49, 50, 51, 52, 53, 54, 55, 56, 57, 48, 49, 50, 51, 52, 53, 54, 55, 56,
       57, 48, 49, 50, 51, 52, 53, 54, 55, 56, 57, 48, 49, 50, 51, 52>>,
       <<220, 241, 13, 57, 103, 122, 60, 247, 251, 70, 66, 60, 159, 167, 42, 98, 102, 235,
       155, 190, 233, 35, 161, 235, 137, 159, 88, 28, 234, 162, 224, 47>>>>,
     <<<<98, 99, 100, 101, 102, 103, 104, 105>>,
       <<51, 52, 98, 99, 100, 101, 102, 103, 104, 105, 106, 107, 108, 109, 110, 111, 112,
       113, 114, 115, 116, 117, 118, 119, 120, 121, 122, 97, 98, 99, 100, 101, 102, 103,
       104, 105>>,
       <<238, 207, 79, 31, 245, 255, 2, 207, 189, 126, 38, 242, 98, 113, 224, 40, 55, 52,
       4, 244, 78, 119, 200, 102, 2, 14, 221, 240, 190, 103, 88, 129>>>>,
     <<<<98, 99, 100, 101, 102, 103, 104, 105>>,
       <<51, 53, 49, 50, 51, 52, 53, 54, 55, 56, 57, 48, 49, 50, 51, 52, 53, 54, 55, 56,
       57, 48, 49, 50, 51, 52, 53, 54, 55, 56, 57, 48, 49, 50, 51, 52, 53>>,
       <<234, 2, 50, 130, 192, 114, 249, 149, 114, 86, 61, 142, 53, 252, 1, 136, 2, 87,
       165, 236, 231, 156, 196, 8, 44, 219, 142, 219, 70, 38, 226, 45>>>>,
     <<<<98, 99, 100, 101, 102, 103, 104, 105>>,
       <<51, 53, 98, 99, 100, 101, 102, 103, 104, 105, 106, 107, 108, 109, 110, 111, 112,
       113, 114, 115, 116, 117, 118, 119, 120, 121, 122, 97, 98, 99, 100, 101, 102, 103,
       104, 105, 106>>,
       <<245, 60, 102, 220, 149, 75, 128, 47, 9, 251, 181, 116, 254, 147, 222, 191, 5,
       229, 123, 0, 7, 212, 139, 17, 167, 183, 114, 250, 68, 157, 150, 127>>>>,
     <<<<98, 99, 100, 101, 102, 103, 104, 105>>,
       <<51, 54, 49, 50, 51, 52, 53, 54, 55, 56, 57, 48, 49, 50, 51, 52, 53, 54, 55, 56,
       57, 48, 49, 50, 51, 52, 53, 54, 55, 56, 57, 48, 49, 50, 51, 52, 53, 54>>,
       <<111, 64, 172, 219, 169, 175, 160, 255, 74, 222, 32, 161, 239, 195, 193, 103, 107,
       59, 136, 123, 46, 71, 244, 251, 34, 174, 130, 10, 241, 154, 210, 11>>>>,
     <<<<98, 99, 100, 101, 102, 103, 104, 105>>,
       <<51, 54, 98, 99, 100, 101, 102, 103, 104, 105, 106, 107, 108, 109, 110, 111, 112,
       113, 114, 115, 116, 117, 118, 119, 120, 121, 122, 97, 98, 99, 100, 101, 102, 103,
       104, 105, 106, 107>>,
       <<249, 174, 105, 31, 20, 60, 207, 153, 167, 12, 216, 206, 82, 126, 80, 220, 235,
       71, 146, 216, 223, 23, 253, 174, 35, 4, 124, 215, 173, 58, 19, 222>>>>,
     <<<<98, 99, 100, 101, 102, 103, 104, 105>>,
       <<51, 55, 49, 50, 51, 52, 53, 54, 55, 56, 57, 48, 49, 50, 51, 52, 53, 54, 55, 56,
       57, 48, 49, 50, 51, 52, 53, 54, 55, 56, 57, 48, 49, 50, 51, 52, 53, 54, 55>>,
       <<213, 195, 131, 56, 146, 207, 47, 189, 215, 26, 6, 40, 83, 219, 116, 168, 164, 98,
       234, 203, 65, 77, 72, 126, 54, 158, 110, 13, 69, 22, 198, 237>>>>,
     <<<<98, 99, 100, 101, 102, 103, 104, 105>>,
       <<51, 55, 98, 99, 100, 101, 102, 103, 104, 105, 106, 107, 108, 109, 110, 111, 112,
       113, 114, 115, 116, 117, 118, 119, 120, 121, 122, 97, 98, 99, 100, 101, 102, 103,
       104, 105, 106, 107, 108>>,
       <<83, 250, 204, 151, 135, 97, 179, 1, 25, 243, 253, 78, 46, 233, 174, 90, 163, 211,
       219, 164, 71, 126, 33, 62, 182, 161, 186, 175, 153, 209, 79, 239>>>>,
     <<<<98, 99, 100, 101, 102, 103, 104, 105>>,
       <<51, 56, 49, 50, 51, 52, 53, 54, 55, 56, 57, 48, 49, 50, 51, 52, 53, 54, 55, 56,
       57, 48, 49, 50, 51, 52, 53, 54, 55, 56, 57, 48, 49, 50, 51, 52, 53, 54, 55, 56>>,
       <<85, 118, 22, 131, 13, 149, 87, 9, 101, 212, 211, 14, 108, 69, 78, 154, 70, 251,
       92, 218, 232, 171, 13, 108, 87, 246, 233, 33, 252, 12, 169, 115>>>>,
     <<<<98, 99, 100, 101, 102, 103, 104, 105>>,
       <<51, 56, 98, 99, 100, 101, 102, 103, 104, 105, 106, 107, 108, 109, 110, 111, 112,
       113, 114, 115, 116, 117, 118, 119, 120, 121, 122, 97, 98, 99, 100, 101, 102, 103,
       104, 105, 106, 107, 108, 109>>,
       <<120, 124, 21, 221, 44, 83, 203, 207, 94, 161, 218, 203, 119, 202, 20, 145, 227,
       26, 97, 228, 85, 159, 133, 161, 3, 244, 7, 107, 140, 71, 70, 133>>>>,
     <<<<98, 99, 100, 101, 102, 103, 104, 105>>,
       <<51, 57, 49, 50, 51, 52, 53, 54, 55, 56, 57, 48, 49, 50, 51, 52, 53, 54, 55, 56,
       57, 48, 49, 50, 51, 52, 53, 54, 55, 56, 57, 48, 49, 50, 51, 52, 53, 54, 55, 56,
       57>>,
       <<191, 14, 208, 67, 245, 96, 63, 56, 72, 148, 150, 178, 142, 175, 125, 242, 152,
       43, 181, 58, 180, 234, 196, 128, 81, 179, 57, 30, 78, 155, 111, 94>>>>,
     <<<<98, 99, 100, 101, 102, 103, 104, 105>>,
       <<51, 57, 98, 99, 100, 101, 102, 103, 104, 105, 106, 107, 108, 109, 110, 111, 112,
       113, 114, 115, 116, 117, 118, 119, 120, 121, 122, 97, 98, 99, 100, 101, 102, 103,
       104, 105, 106, 107, 108, 109, 110>>,
       <<96, 194, 48, 208, 213, 104, 41, 23, 135, 119, 6, 159, 99, 158, 59, 189, 242, 30,
       125, 84, 210, 130, 211, 89, 29, 152, 143, 159, 33, 32, 154, 130>>>>,
     <<<<98, 99, 100, 101, 102, 103, 104, 105>>,
       <<52, 48, 49, 50, 51, 52, 53, 54, 55, 56, 57, 48, 49, 50, 51, 52, 53, 54, 55, 56,
       57, 48, 49, 50, 51, 52, 53, 54, 55, 56, 57, 48, 49, 50, 51, 52, 53, 54, 55, 56, 57,
       48>>,
       <<54, 140, 140, 4, 107, 45, 211, 81, 8, 2, 136, 104, 153, 191, 209, 0, 60, 29, 132,
       169, 125, 235, 184, 225, 184, 211, 17, 115, 125, 218, 179, 200>>>>,
     <<<<98, 99, 100, 101, 102, 103, 104, 105>>,
       <<52, 48, 98, 99, 100, 101, 102, 103, 104, 105, 106, 107, 108, 109, 110, 111, 112,
       113, 114, 115, 116, 117, 118, 119, 120, 121, 122, 97, 98, 99, 100, 101, 102, 103,
       104, 105, 106, 107, 108, 109, 110, 111>>,
       <<214, 89, 16, 50, 101, 140, 177, 11, 222, 169, 11, 35, 16, 153, 247, 169, 44, 170,
       5, 95, 103, 127, 242, 76, 170, 69, 93, 228, 239, 93, 173, 152>>>>,
     <<<<98, 99, 100, 101, 102, 103, 104, 105>>,
       <<52, 49, 48, 52, 120, 57, 42, 49, 86, 123, 53, 108, 104>>,
       <<97, 189, 214, 78, 130, 255, 97, 95, 98, 61, 134, 134, 213, 210, 157, 219, 217,
       50, 94, 244, 78, 219, 111, 87, 204, 98, 163, 86, 153, 46, 103, 187>>>>,
     <<<<98, 99, 100, 101, 102, 103, 104, 105>>,
       <<52, 49, 49, 50, 51, 52, 53, 54, 55, 56, 57, 48, 49, 50, 51, 52, 53, 54, 55, 56,
       57, 48, 49, 50, 51, 52, 53, 54, 55, 56, 57, 48, 49, 50, 51, 52, 53, 54, 55, 56, 57,
       48, 49>>,
       <<131, 130, 31, 5, 231, 254, 39, 114, 7, 100, 3, 171, 52, 21, 199, 88, 98, 28, 216,
       78, 155, 17, 1, 125, 107, 66, 142, 211, 172, 167, 251, 157>>>>,
     <<<<98, 99, 100, 101, 102, 103, 104, 105>>,
       <<52, 49, 98, 99, 100, 101, 102, 103, 104, 105, 106, 107, 108, 109, 110, 111, 112,
       113, 114, 115, 116, 117, 118, 119, 120, 121, 122, 97, 98, 99, 100, 101, 102, 103,
       104, 105, 106, 107, 108, 109, 110, 111, 112>>,
       <<118, 72, 46, 245, 150, 134, 98, 179, 17, 242, 205, 147, 160, 245, 86, 132, 96,
       143, 42, 150, 193, 20, 108, 184, 39, 83, 30, 247, 30, 227, 137, 153>>>>,
     <<<<98, 99, 100, 101, 102, 103, 104, 105>>,
       <<52, 50, 49, 50, 51, 52, 53, 54, 55, 56, 57, 48, 49, 50, 51, 52, 53, 54, 55, 56,
       57, 48, 49, 50, 51, 52, 53, 54, 55, 56, 57, 48, 49, 50, 51, 52, 53, 54, 55, 56, 57,
       48, 49, 50>>,
       <<24, 43, 60, 29, 205, 68, 12, 203, 69, 244, 36, 13, 253, 118, 229, 27, 122, 128,
       89, 193, 224, 42, 62, 92, 206, 146, 50, 17, 164, 108, 244, 37>>>>,
     <<<<98, 99, 100, 101, 102, 103, 104, 105>>,
       <<52, 50, 98, 99, 100, 101, 102, 103, 104, 105, 106, 107, 108, 109, 110, 111, 112,
       113, 114, 115, 116, 117, 118, 119, 120, 121, 122, 97, 98, 99, 100, 101, 102, 103,
       104, 105, 106, 107, 108, 109, 110, 111, 112, 113>>,
       <<194, 90, 159, 174, 75, 239, 114, 154, 191, 175, 150, 179, 37, 41, 122, 186, 153,
       136, 29, 104, 151, 168, 115, 180, 50, 141, 32, 171, 97, 26, 229, 138>>>>,
     <<<<98, 99, 100, 101, 102, 103, 104, 105>>,
       <<52, 51, 49, 50, 51, 52, 53, 54, 55, 56, 57, 48, 49, 50, 51, 52, 53, 54, 55, 56,
       57, 48, 49, 50, 51, 52, 53, 54, 55, 56, 57, 48, 49, 50, 51, 52, 53, 54, 55, 56, 57,
       48, 49, 50, 51>>,
       <<23, 183, 44, 208, 71, 0, 61, 144, 9, 189, 140, 140, 150, 120, 32, 218, 100, 34,
       59, 107, 219, 110, 91, 137, 31, 115, 40, 219, 156, 175, 21, 179>>>>,
     <<<<98, 99, 100, 101, 102, 103, 104, 105>>,
       <<52, 51, 98, 99, 100, 101, 102, 103, 104, 105, 106, 107, 108, 109, 110, 111, 112,
       113, 114, 115, 116, 117, 118, 119, 120, 121, 122, 97, 98, 99, 100, 101, 102, 103,
       104, 105, 106, 107, 108, 109, 110, 111, 112, 113, 114>>,
       <<193, 129, 125, 27, 155, 140, 159, 223, 154, 50, 121, 15, 92, 233, 0, 89, 193,
       207, 5, 13, 50, 244, 198, 237, 246, 30, 237, 69, 138, 233, 184, 232>>>>,
     <<<<98, 99, 100, 101, 102, 103, 104, 105>>,
       <<52, 52, 49, 50, 51, 52, 53, 54, 55, 56, 57, 48, 49, 50, 51, 52, 53, 54, 55, 56,
       57, 48, 49, 50, 51, 52, 53, 54, 55, 56, 57, 48, 49, 50, 51, 52, 53, 54, 55, 56, 57,
       48, 49, 50, 51, 52>>,
       <<230, 10, 66, 87, 226, 59, 84, 183, 32, 117, 169, 1, 170, 167, 126, 46, 119, 113,
       22, 219, 62, 249, 218, 167, 174, 104, 197, 5, 195, 69, 86, 231>>>>,
     <<<<98, 99, 100, 101, 102, 103, 104, 105>>,
       <<52, 52, 98, 99, 100, 101, 102, 103, 104, 105, 106, 107, 108, 109, 110, 111, 112,
       113, 114, 115, 116, 117, 118, 119, 120, 121, 122, 97, 98, 99, 100, 101, 102, 103,
       104, 105, 106, 107, 108, 109, 110, 111, 112, 113, 114, 115>>,
       <<230, 218, 151, 123, 225, 0, 113, 187, 241, 84, 208, 133, 53, 199, 72, 5, 6, 231,
       137, 174, 72, 136, 78, 153, 72, 224, 13, 193, 95, 85, 41, 195>>>>,
     <<<<98, 99, 100, 101, 102, 103, 104, 105>>,
       <<52, 53, 49, 50, 51, 52, 53, 54, 55, 56, 57, 48, 49, 50, 51, 52, 53, 54, 55, 56,
       57, 48, 49, 50, 51, 52, 53, 54, 55, 56, 57, 48, 49, 50, 51, 52, 53, 54, 55, 56, 57,
       48, 49, 50, 51, 52, 53>>,
       <<251, 149, 47, 61, 117, 64, 61, 160, 160, 123, 41, 29, 172, 41, 208, 133, 97, 171,
       74, 244, 224, 239, 48, 233, 57, 244, 85, 133, 149, 12, 185, 43>>>>,
     <<<<98, 99, 100, 101, 102, 103, 104, 105>>,
       <<52, 53, 98, 99, 100, 101, 102, 103, 104, 105, 106, 107, 108, 109, 110, 111, 112,
       113, 114, 115, 116, 117, 118, 119, 120, 121, 122, 97, 98, 99, 100, 101, 102, 103,
       104, 105, 106, 107, 108, 109, 110, 111, 112, 113, 114, 115, 116>>,
       <<238, 149, 47, 189, 60, 156, 167, 57, 110, 241, 247, 234, 173, 52, 158, 70, 255,
       55, 46, 204, 181, 46, 65, 192, 204, 149, 165, 141, 33, 159, 16, 24>>>>,
     <<<<98, 99, 100, 101, 102, 103, 104, 105>>,
       <<52, 54, 49, 50, 51, 52, 53, 54, 55, 56, 57, 48, 49, 50, 51, 52, 53, 54, 55, 56,
       57, 48, 49, 50, 51, 52, 53, 54, 55, 56, 57, 48, 49, 50, 51, 52, 53, 54, 55, 56, 57,
       48, 49, 50, 51, 52, 53, 54>>,
       <<213, 60, 30, 15, 208, 251, 115, 166, 132, 154, 104, 178, 69, 212, 52, 154, 251,
       100, 11, 82, 203, 89, 150, 204, 38, 140, 45, 215, 105, 139, 15, 12>>>>,
     <<<<98, 99, 100, 101, 102, 103, 104, 105>>,
       <<52, 54, 98, 99, 100, 101, 102, 103, 104, 105, 106, 107, 108, 109, 110, 111, 112,
       113, 114, 115, 116, 117, 118, 119, 120, 121, 122, 97, 98, 99, 100, 101, 102, 103,
       104, 105, 106, 107, 108, 109, 110, 111, 112, 113, 114, 115, 116, 117>>,
       <<171, 78, 223, 45, 170, 160, 229, 88, 132, 254, 169, 72, 23, 237, 158, 159, 94,
       100, 228, 36, 223, 246, 242, 210, 172, 46, 96, 41, 94, 82, 240, 240>>>>,
     <<<<98, 99, 100, 101, 102, 103, 104, 105>>,
       <<56, 49, 50, 51, 52, 53, 54, 55, 56>>,
       <<194, 100, 251, 106, 172, 31, 80, 189, 225, 105, 21, 160, 188, 168, 172, 58, 208,
       4, 179, 49, 112, 210, 89, 242, 48, 138, 78, 194, 58, 242, 25, 164>>>>,
     <<<<98, 99, 100, 101, 102, 103, 104, 105>>,
       <<56, 98, 99, 100, 101, 102, 103, 104, 105>>,
       <<94, 227, 104, 118, 186, 24, 187, 70, 80, 244, 142, 105, 195, 111, 138, 71, 170,
       186, 94, 249, 60, 64, 79, 195, 140, 84, 156, 11, 0, 66, 15, 168>>>>,
     <<<<98, 99, 100, 101, 102, 103, 104, 105>>,
       <<56, 195, 169, 195, 169, 195, 169, 195, 169>>,
       <<144, 115, 58, 179, 252, 187, 40, 79, 198, 71, 240, 209, 80, 176, 212, 76, 252,
       20, 157, 85, 23, 167, 155, 186, 113, 107, 65, 108, 81, 252, 16, 239>>>>,
     <<<<98, 99, 100, 101, 102, 103, 104, 105>>,
       <<57, 49, 50, 51, 52, 53, 54, 55, 56, 57>>,
       <<138, 98, 108, 108, 178, 149, 174, 44, 151, 231, 114, 118, 138, 253, 217, 225, 49,
       158, 239, 252, 11, 156, 152, 171, 205, 193, 83, 139, 170, 196, 59, 155>>>>,
     <<<<98, 99, 100, 101, 102, 103, 104, 105>>,
       <<57, 98, 99, 100, 101, 102, 103, 104, 105, 106>>,
       <<172, 126, 127, 183, 221, 127, 240, 57, 75, 59, 27, 182, 101, 251, 73, 134, 155,
       65, 147, 75, 246, 46, 151, 86, 234, 81, 41, 201, 106, 197, 231, 47>>>>,
     <<<<101, 126, 122, 91, 67, 101, 100, 49, 48, 115, 68, 89, 124, 86, 82, 65, 50, 52,
       81, 51, 106, 41, 55, 46, 66, 46, 109, 118, 117, 52, 59, 81, 70, 111, 61, 38, 55,
       64, 45, 68>>,
       <<49, 50, 48, 93, 108, 69, 126, 87, 69, 120, 90, 52, 54, 56, 116, 121, 123, 73, 53,
       109, 116, 103, 91>>,
       <<61, 76, 177, 48, 35, 4, 140, 223, 43, 146, 109, 127, 140, 227, 82, 224, 142, 32,
       142, 63, 233, 54, 80, 54, 184, 173, 93, 224, 235, 123, 203, 184>>>>,
     <<<<101, 126, 122, 91, 67, 101, 100, 49, 48, 115, 68, 89, 124, 86, 82, 65, 50, 52,
       81, 51, 106, 41, 55, 46, 66, 46, 109, 118, 117, 52, 59, 81, 70, 111, 61, 38, 55,
       64, 45, 68>>,
       <<50, 48, 93, 108, 69, 126, 87, 69, 120, 90, 52, 54, 56, 116, 121, 123, 73, 53,
       109, 116, 103, 91>>,
       <<160, 34, 105, 96, 27, 241, 165, 147, 3, 127, 57, 136, 131, 68, 211, 183, 4, 99,
       241, 98, 98, 1, 89, 80, 37, 173, 93, 139, 249, 145, 56, 151>>>>,
     <<<<101, 126, 122, 91, 67, 101, 100, 49, 48, 115, 68, 89, 124, 86, 82, 65, 50, 52,
       81, 51, 106, 41, 55, 46, 66, 46, 109, 118, 117, 52, 59, 81, 70, 111, 61, 38, 55,
       64, 45, 68>>,
       <<50, 50, 48, 93, 108, 69, 126, 87, 69, 120, 90, 52, 54, 56, 116, 121, 123, 73, 53,
       109, 116, 103, 91>>,
       <<136, 22, 185, 117, 36, 86, 149, 173, 166, 102, 149, 178, 59, 136, 251, 162, 227,
       46, 133, 248, 200, 107, 242, 89, 204, 14, 155, 16, 146, 203, 234, 99>>>>,
     <<<<101, 126, 122, 91, 67, 101, 100, 49, 48, 115, 68, 89, 124, 86, 82, 65, 50, 52,
       81, 51, 106, 41, 55, 46, 66, 46, 109, 118, 117, 52, 59, 81, 70, 111, 61, 38, 55,
       64, 45, 68>>,
       <<51, 50, 48, 93, 108, 69, 126, 87, 69, 120, 90, 52, 54, 56, 116, 121, 123, 73, 53,
       109, 116, 103, 91>>,
       <<213, 232, 81, 220, 182, 220, 148, 181, 58, 193, 163, 83, 102, 232, 37, 216, 1,
       196, 48, 242, 76, 213, 155, 201, 92, 194, 162, 181, 245, 244, 136, 35>>>>,
     <<<<101, 126, 122, 91, 67, 101, 100, 49, 48, 115, 68, 89, 124, 86, 82, 65, 50, 52,
       81, 51, 106, 41, 55, 46, 66, 46, 109, 118, 117, 52, 59, 81, 70, 111, 61, 38, 55,
       64, 45, 68>>,
       <<52, 50, 48, 93, 108, 69, 126, 87, 69, 120, 90, 52, 54, 56, 116, 121, 123, 73, 53,
       109, 116, 103, 91>>,
       <<78, 175, 55, 156, 57, 152, 102, 161, 85, 131, 133, 34, 0, 218, 29, 145, 236, 107,
       183, 253, 136, 82, 24, 146, 107, 173, 94, 79, 175, 184, 166, 146>>>>}

\* the table as a function of <<password, salt>>
Argon2idTag ==
    [q \in {<<e[1], e[2]>> : e \in Argon2idValues} |->
        (CHOOSE e \in Argon2idValues : e[1] = q[1] /\ e[2] = q[2])[3]]

\* Argon2::new(Argon2id, V0x13, Params::new(32 * 1024, 4, 4, None)).hash_password,
\* on the raw salt bytes
Argon2id(password, salt) ==
    IF Len(salt) < Argon2MinSaltLen THEN Err("password_hash::Error", "SaltInvalid(TooShort)")
    ELSE Ok(Argon2idTag[<<password, salt>>])

\* <<key, message, tag>>: the 64-byte tag of HMAC-SHA-512
HmacSha512Values ==
    {<<<<>>,
       <<77, 68, 69, 119, 77, 81>>,
       <<254, 43, 49, 53, 232, 247, 166, 16, 22, 87, 77, 49, 48, 65, 87, 241, 11, 228, 45,
       37, 77, 70, 35, 150, 244, 94, 7, 46, 190, 162, 162, 93, 7, 63, 115, 107, 106, 199,
       145, 47, 127, 133, 147, 200, 28, 148, 51, 43, 234, 217, 189, 39, 100, 135, 86, 245,
       87, 210, 224, 106, 99, 151, 160, 8>>>>,
     <<<<>>,
       <<77, 68, 69, 119, 77, 84, 65, 119>>,
       <<77, 113, 52, 100, 188, 115, 132, 248, 8, 210, 125, 11, 206, 16, 192, 81, 72, 223,
       141, 106, 25, 92, 71, 239, 176, 33, 141, 40, 232, 11, 15, 127, 244, 188, 160, 242,
       167, 110, 15, 197, 157, 68, 230, 219, 150, 255, 241, 225, 181, 113, 50, 132, 185,
       134, 14, 84, 67, 124, 6, 191, 231, 90, 70, 156>>>>,
     <<<<>>,
       <<77, 68, 89, 48, 77, 81>>,
       <<76, 213, 135, 6, 45, 145, 13, 63, 51, 52, 64, 126, 26, 209, 128, 76, 117, 239,
       57, 179, 87, 8, 178, 197, 238, 129, 53, 89, 66, 83, 94, 143, 164, 226, 122, 144,
       39, 36, 206, 124, 254, 104, 173, 161, 214, 128, 250, 199, 196, 224, 32, 139, 131,
       237, 54, 14, 33, 200, 225, 109, 252, 233, 218, 43>>>>,
     <<<<>>,
       <<77, 68, 89, 48, 77, 84, 65, 119>>,
       <<113, 175, 85, 117, 42, 138, 20, 15, 37, 115, 74, 161, 224, 146, 196, 116, 30,
       128, 239, 199, 4, 28, 216, 173, 142, 144, 28, 56, 16, 99, 209, 8, 30, 72, 232, 239,
       182, 211, 225, 200, 247, 160, 126, 157, 53, 119, 79, 47, 239, 5, 137, 158, 52, 148,
       155, 34, 254, 15, 43, 73, 141, 128, 163, 57>>>>,
     <<<<>>,
       <<77, 84, 65, 48, 101, 68, 107, 113, 77, 86, 90, 55, 78, 87, 120, 111, 77, 84, 65,
       120>>,
       <<58, 18, 17, 111, 61, 93, 150, 182, 35, 191, 56, 95, 72, 89, 115, 119, 124, 133,
       54, 13, 177, 38, 114, 107, 71, 158, 16, 21, 201, 213, 202, 159, 64, 4, 206, 128,
       126, 53, 33, 9, 14, 28, 200, 170, 161, 175, 226, 91, 248, 217, 55, 152, 101, 33,
       200, 230, 187, 223, 23, 3, 18, 224, 71, 95>>>>,
     <<<<>>,
       <<77, 84, 65, 48, 101, 68, 107, 113, 77, 86, 90, 55, 78, 87, 120, 111, 77, 84, 65,
       120, 77, 68, 65>>,
       <<90, 2, 207, 240, 206, 108, 103, 56, 15, 179, 196, 42, 34, 152, 51, 198, 48, 136,
       78, 58, 6, 68, 172, 199, 227, 37, 211, 65, 116, 202, 32, 14, 174, 122, 76, 251,
       239, 103, 144, 130, 146, 191, 175, 51, 199, 243, 10, 73, 138, 154, 180, 179, 251,
       28, 242, 11, 91, 25, 92, 198, 3, 211, 85, 38>>>>,
     <<<<>>,
       <<77, 84, 65, 48, 101, 68, 107, 113, 77, 86, 90, 55, 78, 87, 120, 111, 78, 106, 81,
       120>>,
       <<155, 10, 196, 51, 94, 60, 114, 68, 37, 158, 147, 135, 12, 162, 146, 11, 86, 221,
       85, 145, 249, 169, 3, 73, 40, 235, 12, 198, 129, 52, 121, 208, 10, 238, 35, 69,
       171, 3, 104, 242, 134, 32, 151, 229, 18, 195, 232, 9, 223, 83, 235, 127, 73, 240,
       181, 80, 194, 34, 117, 241, 247, 203, 159, 143>>>>,
     <<<<>>,
       <<77, 84, 65, 48, 101, 68, 107, 113, 77, 86, 90, 55, 78, 87, 120, 111, 78, 106, 81,
       120, 77, 68, 65>>,
       <<158, 194, 215, 39, 211, 247, 223, 1, 44, 25, 165, 165, 149, 230, 52, 85, 128,
       141, 138, 199, 133, 89, 87, 87, 54, 21, 174, 63, 110, 255, 101, 219, 76, 111, 5,
       211, 57, 42, 205, 237, 168, 224, 36, 71, 165, 184, 63, 128, 212, 7, 28, 12, 133,
       17, 132, 197, 209, 150, 85, 220, 19, 189, 93, 53>>>>,
     <<<<48, 51, 100, 56, 99, 99, 55, 55, 98, 99, 57, 99, 56, 54, 54, 55, 97, 54, 97, 102,
       55, 51, 100, 49, 101, 97, 50, 98, 51, 102, 52, 52, 51, 101, 101, 49, 51, 99, 49,
       49, 49, 57, 49, 53, 102, 100, 56, 51, 102, 102, 50, 99, 55, 55, 50, 100, 99, 50,
       55, 101, 49, 52, 51, 53>>,
       <<77, 106, 66, 70, 101, 71, 70, 116, 99, 71, 120, 108, 73, 70, 78, 108, 99, 110,
       90, 112, 89, 50, 85, 103, 84, 109, 70, 116, 90, 84, 73, 119, 77, 81>>,
       <<65, 107, 202, 115, 165, 188, 244, 119, 198, 182, 25, 72, 170, 230, 150, 219, 144,
       156, 147, 196, 214, 247, 191, 220, 42, 252, 75, 73, 49, 17, 146, 79, 247, 224, 236,
       66, 117, 41, 124, 111, 222, 30, 174, 84, 37, 88, 68, 114, 42, 54, 107, 189, 93, 95,
       123, 210, 14, 142, 56, 119, 226, 15, 69, 71>>>>,
     <<<<48, 102, 48, 102, 48, 102, 48, 102, 48, 102, 48, 102, 48, 102, 48, 102, 48, 102,
       48, 102, 48, 102, 48, 102, 48, 102, 48, 102, 48, 102, 48, 102, 48, 102, 48, 102,
       48, 102, 48, 102, 48, 102, 48, 102, 48, 102, 48, 102, 48, 102, 48, 102, 48, 102,
       48, 102, 48, 102, 48, 102, 48, 102, 48, 102>>,
       <<77, 68, 69>>,
       <<126, 149, 96, 26, 223, 240, 229, 228, 251, 237, 178, 230, 142, 79, 158, 119, 78,
       200, 72, 142, 235, 8, 7, 95, 29, 59, 192, 88, 211, 21, 191, 177, 102, 164, 202, 12,
       197, 60, 213, 167, 93, 181, 8, 194, 154, 0, 82, 63, 145, 93, 235, 250, 76, 57, 160,
       36, 21, 215, 106, 159, 183, 134, 43, 76>>>>,
     <<<<48, 102, 48, 102, 48, 102, 48, 102, 48, 102, 48, 102, 48, 102, 48, 102, 48, 102,
       48, 102, 48, 102, 48, 102, 48, 102, 48, 102, 48, 102, 48, 102, 48, 102, 48, 102,
       48, 102, 48, 102, 48, 102, 48, 102, 48, 102, 48, 102, 48, 102, 48, 102, 48, 102,
       48, 102, 48, 102, 48, 102, 48, 102, 48, 102>>,
       <<77, 68, 69, 119, 77, 65>>,
       <<174, 91, 250, 59, 77, 45, 191, 181, 48, 54, 173, 23, 17, 120, 137, 28, 183, 84,
       227, 103, 5, 63, 141, 231, 221, 0, 238, 161, 88, 216, 84, 250, 202, 241, 224, 130,
       13, 20, 175, 9, 117, 143, 214, 171, 58, 49, 242, 26, 160, 151, 186, 186, 86, 101,
       119, 36, 236, 153, 137, 20, 62, 225, 82, 229>>>>,
     <<<<48, 102, 48, 102, 48, 102, 48, 102, 48, 102, 48, 102, 48, 102, 48, 102, 48, 102,
       48, 102, 48, 102, 48, 102, 48, 102, 48, 102, 48, 102, 48, 102, 48, 102, 48, 102,
       48, 102, 48, 102, 48, 102, 48, 102, 48, 102, 48, 102, 48, 102, 48, 102, 48, 102,
       48, 102, 48, 102, 48, 102, 48, 102, 48, 102>>,
       <<77, 68, 69, 119, 77, 81>>,
       <<175, 180, 203, 27, 196, 243, 146, 208, 34, 210, 184, 74, 25, 232, 15, 120, 40,
       215, 122, 211, 49, 155, 60, 32, 80, 109, 218, 118, 78, 253, 250, 67, 174, 56, 153,
       166, 240, 212, 41, 197, 91, 247, 47, 25, 191, 144, 154, 224, 171, 118, 117, 88,
       170, 219, 219, 117, 39, 244, 135, 201, 154, 229, 23, 37>>>>,
     <<<<48, 102, 48, 102, 48, 102, 48, 102, 48, 102, 48, 102, 48, 102, 48, 102, 48, 102,
       48, 102, 48, 102, 48, 102, 48, 102, 48, 102, 48, 102, 48, 102, 48, 102, 48, 102,
       48, 102, 48, 102, 48, 102, 48, 102, 48, 102, 48, 102, 48, 102, 48, 102, 48, 102,
       48, 102, 48, 102, 48, 102, 48, 102, 48, 102>>,
       <<77, 68, 69, 119, 77, 84, 65, 119>>,
       <<254, 206, 137, 61, 153, 184, 61, 13, 231, 246, 99, 168, 165, 118, 82, 34, 239,
       27, 180, 3, 100, 203, 146, 207, 165, 134, 213, 86, 19, 175, 191, 230, 223, 174,
       164, 241, 235, 110, 171, 56, 166, 134, 125, 232, 182, 126, 4, 207, 119, 111, 247,
       101, 44, 76, 166, 28, 120, 244, 90, 212, 63, 17, 172, 52>>>>,
     <<<<48, 102, 48, 102, 48, 102, 48, 102, 48, 102, 48, 102, 48, 102, 48, 102, 48, 102,
       48, 102, 48, 102, 48, 102, 48, 102, 48, 102, 48, 102, 48, 102, 48, 102, 48, 102,
       48, 102, 48, 102, 48, 102, 48, 102, 48, 102, 48, 102, 48, 102, 48, 102, 48, 102,
       48, 102, 48, 102, 48, 102, 48, 102, 48, 102>>,
       <<77, 68, 69, 120>>,
       <<181, 168, 11, 233, 83, 177, 42, 4, 82, 100, 36, 115, 151, 123, 136, 207, 37, 209,
       12, 113, 173, 213, 67, 71, 114, 178, 59, 66, 86, 120, 78, 208, 176, 145, 212, 46,
       42, 14, 243, 106, 65, 29, 125, 38, 149, 207, 133, 37, 215, 225, 146, 16, 160, 122,
       69, 65, 244, 76, 119, 171, 95, 220, 202, 171>>>>,
     <<<<48, 102, 48, 102, 48, 102, 48, 102, 48, 102, 48, 102, 48, 102, 48, 102, 48, 102,
       48, 102, 48, 102, 48, 102, 48, 102, 48, 102, 48, 102, 48, 102, 48, 102, 48, 102,
       48, 102, 48, 102, 48, 102, 48, 102, 48, 102, 48, 102, 48, 102, 48, 102, 48, 102,
       48, 102, 48, 102, 48, 102, 48, 102, 48, 102>>,
       <<77, 68, 69, 120, 77, 68, 65>>,
       <<221, 185, 183, 97, 56, 69, 197, 109, 70, 96, 215, 24, 253, 116, 169, 173, 78,
       124, 34, 255, 192, 107, 177, 182, 121, 235, 104, 86, 146, 96, 251, 43, 123, 94, 56,
       221, 60, 112, 203, 45, 177, 144, 200, 199, 139, 145, 194, 135, 238, 98, 83, 142,
       160, 148, 122, 14, 213, 233, 3, 94, 74, 157, 149, 79>>>>,
     <<<<48, 102, 48, 102, 48, 102, 48, 102, 48, 102, 48, 102, 48, 102, 48, 102, 48, 102,
       48, 102, 48, 102, 48, 102, 48, 102, 48, 102, 48, 102, 48, 102, 48, 102, 48, 102,
       48, 102, 48, 102, 48, 102, 48, 102, 48, 102, 48, 102, 48, 102, 48, 102, 48, 102,
       48, 102, 48, 102, 48, 102, 48, 102, 48, 102>>,
       <<77, 68, 89, 48, 77, 81>>,
       <<97, 29, 163, 71, 98, 88, 191, 52, 203, 191, 70, 63, 37, 13, 89, 154, 205, 240,
       163, 186, 134, 105, 140, 252, 91, 142, 15, 68, 216, 32, 128, 10, 79, 55, 58, 186,
       183, 1, 107, 123, 101, 99, 251, 0, 238, 87, 214, 158, 0, 103, 76, 78, 195, 10, 161,
       17, 139, 112, 109, 207, 205, 219, 126, 86>>>>,
     <<<<48, 102, 48, 102, 48, 102, 48, 102, 48, 102, 48, 102, 48, 102, 48, 102, 48, 102,
       48, 102, 48, 102, 48, 102, 48, 102, 48, 102, 48, 102, 48, 102, 48, 102, 48, 102,
       48, 102, 48, 102, 48, 102, 48, 102, 48, 102, 48, 102, 48, 102, 48, 102, 48, 102,
       48, 102, 48, 102, 48, 102, 48, 102, 48, 102>>,
       <<77, 68, 89, 48, 77, 84, 65, 119>>,
       <<34, 210, 104, 25, 29, 168, 205, 198, 216, 202, 251, 146, 152, 197, 191, 155, 68,
       28, 64, 128, 84, 150, 219, 95, 204, 46, 14, 97, 157, 211, 180, 143, 186, 149, 253,
       159, 252, 57, 105, 95, 31, 48, 255, 72, 130, 144, 220, 54, 226, 149, 12, 171, 211,
       201, 253, 115, 223, 171, 25, 115, 252, 131, 233, 184>>>>,
     <<<<48, 102, 48, 102, 48, 102, 48, 102, 48, 102, 48, 102, 48, 102, 48, 102, 48, 102,
       48, 102, 48, 102, 48, 102, 48, 102, 48, 102, 48, 102, 48, 102, 48, 102, 48, 102,
       48, 102, 48, 102, 48, 102, 48, 102, 48, 102, 48, 102, 48, 102, 48, 102, 48, 102,
       48, 102, 48, 102, 48, 102, 48, 102, 48, 102>>,
       <<77, 84, 65, 48, 101, 68, 107, 113, 77, 86, 90, 55, 78, 87, 120, 111, 77, 81>>,
       <<225, 215, 71, 0, 217, 212, 27, 150, 204, 237, 123, 174, 176, 61, 44, 127, 134,
       31, 19, 145, 116, 173, 31, 6, 106, 96, 168, 54, 230, 219, 126, 32, 121, 146, 31,
       121, 223, 131, 38, 138, 190, 150, 218, 118, 133, 131, 174, 163, 204, 172, 222, 38,
       28, 224, 43, 90, 25, 14, 203, 10, 66, 44, 11, 83>>>>,
     <<<<48, 102, 48, 102, 48, 102, 48, 102, 48, 102, 48, 102, 48, 102, 48, 102, 48, 102,
       48, 102, 48, 102, 48, 102, 48, 102, 48, 102, 48, 102, 48, 102, 48, 102, 48, 102,
       48, 102, 48, 102, 48, 102, 48, 102, 48, 102, 48, 102, 48, 102, 48, 102, 48, 102,
       48, 102, 48, 102, 48, 102, 48, 102, 48, 102>>,
       <<77, 84, 65, 48, 101, 68, 107, 113, 77, 86, 90, 55, 78, 87, 120, 111, 77, 84, 65,
       119>>,
       <<9, 198, 6, 148, 182, 24, 89, 38, 206, 10, 17, 42, 244, 60, 216, 175, 38, 205, 15,
       147, 125, 64, 24, 69, 154, 165, 2, 17, 112, 240, 103, 107, 103, 199, 202, 111, 246,
       97, 168, 255, 142, 75, 143, 229, 198, 87, 126, 88, 49, 46, 178, 112, 201, 158, 52,
       70, 97, 110, 241, 135, 45, 10, 152, 102>>>>,
     <<<<48, 102, 48, 102, 48, 102, 48, 102, 48, 102, 48, 102, 48, 102, 48, 102, 48, 102,
       48, 102, 48, 102, 48, 102, 48, 102, 48, 102, 48, 102, 48, 102, 48, 102, 48, 102,
       48, 102, 48, 102, 48, 102, 48, 102, 48, 102, 48, 102, 48, 102, 48, 102, 48, 102,
       48, 102, 48, 102, 48, 102, 48, 102, 48, 102>>,
       <<77, 84, 65, 48, 101, 68, 107, 113, 77, 86, 90, 55, 78, 87, 120, 111, 77, 84, 65,
       120>>,
       <<206, 230, 209, 68, 29, 224, 202, 154, 20, 29, 80, 61, 138, 236, 150, 48, 242,
       210, 40, 141, 188, 135, 51, 105, 144, 166, 11, 37, 30, 166, 210, 220, 26, 246, 189,
       23, 219, 43, 44, 176, 190, 168, 198, 168, 100, 252, 98, 87, 207, 95, 70, 72, 166,
       212, 105, 94, 3, 60, 78, 215, 187, 131, 165, 176>>>>,
     <<<<48, 102, 48, 102, 48, 102, 48, 102, 48, 102, 48, 102, 48, 102, 48, 102, 48, 102,
       48, 102, 48, 102, 48, 102, 48, 102, 48, 102, 48, 102, 48, 102, 48, 102, 48, 102,
       48, 102, 48, 102, 48, 102, 48, 102, 48, 102, 48, 102, 48, 102, 48, 102, 48, 102,
       48, 102, 48, 102, 48, 102, 48, 102, 48, 102>>,
       <<77, 84, 65, 48, 101, 68, 107, 113, 77, 86, 90, 55, 78, 87, 120, 111, 77, 84, 65,
       120, 77, 68, 65>>,
       <<228, 192, 161, 49, 19, 204, 49, 74, 119, 21, 111, 46, 230, 187, 80, 46, 236, 56,
       151, 51, 222, 224, 231, 175, 75, 122, 225, 43, 89, 14, 77, 251, 94, 227, 198, 119,
       250, 38, 143, 148, 153, 248, 40, 199, 103, 149, 196, 27, 199, 238, 26, 160, 77, 77,
       24, 169, 55, 125, 184, 8, 52, 97, 7, 156>>>>,
     <<<<48, 102, 48, 102, 48, 102, 48, 102, 48, 102, 48, 102, 48, 102, 48, 102, 48, 102,
       48, 102, 48, 102, 48, 102, 48, 102, 48, 102, 48, 102, 48, 102, 48, 102, 48, 102,
       48, 102, 48, 102, 48, 102, 48, 102, 48, 102, 48, 102, 48, 102, 48, 102, 48, 102,
       48, 102, 48, 102, 48, 102, 48, 102, 48, 102>>,
       <<77, 84, 65, 48, 101, 68, 107, 113, 77, 86, 90, 55, 78, 87, 120, 111, 77, 84, 69>>,
       <<81, 151, 207, 36, 255, 118, 59, 140, 57, 89, 29, 54, 38, 188, 254, 242, 92, 151,
       32, 254, 160, 229, 179, 47, 219, 40, 87, 15, 237, 36, 160, 74, 7, 85, 207, 49, 73,
       237, 57, 157, 128, 209, 245, 176, 158, 78, 164, 6, 123, 154, 77, 9, 166, 50, 238,
       215, 17, 127, 38, 30, 244, 193, 146, 243>>>>,
     <<<<48, 102, 48, 102, 48, 102, 48, 102, 48, 102, 48, 102, 48, 102, 48, 102, 48, 102,
       48, 102, 48, 102, 48, 102, 48, 102, 48, 102, 48, 102, 48, 102, 48, 102, 48, 102,
       48, 102, 48, 102, 48, 102, 48, 102, 48, 102, 48, 102, 48, 102, 48, 102, 48, 102,
       48, 102, 48, 102, 48, 102, 48, 102, 48, 102>>,
       <<77, 84, 65, 48, 101, 68, 107, 113, 77, 86, 90, 55, 78, 87, 120, 111, 77, 84, 69,
       119, 77, 65>>,
       <<194, 211, 33, 17, 19, 63, 17, 63, 143, 90, 3, 253, 239, 133, 109, 30, 102, 37,
       253, 192, 67, 254, 153, 15, 147, 0, 138, 32, 230, 183, 72, 53, 250, 208, 71, 51,
       252, 99, 10, 22, 249, 0, 130, 227, 160, 90, 117, 57, 219, 0, 127, 75, 42, 116, 80,
       11, 59, 231, 101, 77, 25, 74, 59, 16>>>>,
     <<<<48, 102, 48, 102, 48, 102, 48, 102, 48, 102, 48, 102, 48, 102, 48, 102, 48, 102,
       48, 102, 48, 102, 48, 102, 48, 102, 48, 102, 48, 102, 48, 102, 48, 102, 48, 102,
       48, 102, 48, 102, 48, 102, 48, 102, 48, 102, 48, 102, 48, 102, 48, 102, 48, 102,
       48, 102, 48, 102, 48, 102, 48, 102, 48, 102>>,
       <<77, 84, 65, 48, 101, 68, 107, 113, 77, 86, 90, 55, 78, 87, 120, 111, 77, 84, 69,
       120>>,
       <<10, 155, 40, 122, 65, 199, 37, 123, 159, 94, 79, 25, 142, 61, 8, 120, 183, 236,
       18, 34, 57, 144, 140, 5, 40, 134, 221, 204, 88, 140, 152, 252, 67, 97, 178, 233,
       78, 235, 227, 52, 8, 124, 42, 251, 134, 157, 30, 213, 9, 34, 225, 192, 43, 69, 196,
       155, 31, 210, 154, 59, 117, 225, 220, 206>>>>,
     <<<<48, 102, 48, 102, 48, 102, 48, 102, 48, 102, 48, 102, 48, 102, 48, 102, 48, 102,
       48, 102, 48, 102, 48, 102, 48, 102, 48, 102, 48, 102, 48, 102, 48, 102, 48, 102,
       48, 102, 48, 102, 48, 102, 48, 102, 48, 102, 48, 102, 48, 102, 48, 102, 48, 102,
       48, 102, 48, 102, 48, 102, 48, 102, 48, 102>>,
       <<77, 84, 65, 48, 101, 68, 107, 113, 77, 86, 90, 55, 78, 87, 120, 111, 77, 84, 73,
       120>>,
       <<239, 236, 251, 198, 203, 25, 130, 101, 38, 22, 72, 26, 163, 209, 96, 192, 76, 81,
       151, 76, 4, 3, 87, 34, 67, 16, 1, 157, 122, 195, 138, 206, 186, 1, 39, 214, 225,
       89, 124, 32, 8, 74, 193, 38, 145, 157, 172, 5, 68, 223, 163, 99, 96, 103, 69, 74,
       106, 10, 230, 42, 52, 118, 193, 56>>>>,
     <<<<48, 102, 48, 102, 48, 102, 48, 102, 48, 102, 48, 102, 48, 102, 48, 102, 48, 102,
       48, 102, 48, 102, 48, 102, 48, 102, 48, 102, 48, 102, 48, 102, 48, 102, 48, 102,
       48, 102, 48, 102, 48, 102, 48, 102, 48, 102, 48, 102, 48, 102, 48, 102, 48, 102,
       48, 102, 48, 102, 48, 102, 48, 102, 48, 102>>,
       <<77, 84, 65, 48, 101, 68, 107, 113, 77, 86, 90, 55, 78, 87, 120, 111, 77, 84, 77,
       120>>,
       <<2, 86, 4, 232, 119, 119, 0, 24, 85, 198, 103, 210, 144, 228, 236, 28, 55, 104,
       255, 159, 70, 2, 230, 100, 0, 78, 54, 237, 193, 82, 122, 137, 201, 227, 44, 213,
       208, 57, 90, 1, 217, 219, 62, 106, 43, 60, 228, 82, 43, 108, 213, 137, 61, 197, 11,
       122, 137, 72, 59, 221, 249, 9, 170, 103>>>>,
     <<<<48, 102, 48, 102, 48, 102, 48, 102, 48, 102, 48, 102, 48, 102, 48, 102, 48, 102,
       48, 102, 48, 102, 48, 102, 48, 102, 48, 102, 48, 102, 48, 102, 48, 102, 48, 102,
       48, 102, 48, 102, 48, 102, 48, 102, 48, 102, 48, 102, 48, 102, 48, 102, 48, 102,
       48, 102, 48, 102, 48, 102, 48, 102, 48, 102>>,
       <<77, 84, 65, 48, 101, 68, 107, 113, 77, 86, 90, 55, 78, 87, 120, 111, 77, 84, 81,
       120>>,
       <<78, 245, 161, 114, 64, 5, 194, 251, 198, 232, 182, 139, 191, 24, 97, 183, 187,
       204, 167, 174, 203, 46, 19, 64, 91, 58, 162, 168, 63, 7, 111, 72, 191, 195, 149,
       153, 63, 237, 129, 252, 135, 106, 65, 35, 69, 131, 245, 158, 251, 43, 122, 139,
       224, 228, 236, 67, 135, 79, 244, 120, 108, 0, 80, 197>>>>,
     <<<<48, 102, 48, 102, 48, 102, 48, 102, 48, 102, 48, 102, 48, 102, 48, 102, 48, 102,
       48, 102, 48, 102, 48, 102, 48, 102, 48, 102, 48, 102, 48, 102, 48, 102, 48, 102,
       48, 102, 48, 102, 48, 102, 48, 102, 48, 102, 48, 102, 48, 102, 48, 102, 48, 102,
       48, 102, 48, 102, 48, 102, 48, 102, 48, 102>>,
       <<77, 84, 65, 48, 101, 68, 107, 113, 77, 86, 90, 55, 78, 87, 120, 111, 77, 84, 85,
       120>>,
       <<48, 122, 167, 250, 182, 15, 14, 25, 8, 56, 246, 125, 234, 44, 55, 14, 232, 29,
       144, 39, 55, 211, 231, 22, 145, 133, 178, 161, 245, 232, 43, 253, 202, 192, 63,
       122, 100, 153, 59, 56, 144, 1, 98, 111, 18, 65, 195, 72, 190, 142, 185, 234, 255,
       162, 218, 211, 40, 38, 62, 138, 23, 178, 78, 192>>>>,
     <<<<48, 102, 48, 102, 48, 102, 48, 102, 48, 102, 48, 102, 48, 102, 48, 102, 48, 102,
       48, 102, 48, 102, 48, 102, 48, 102, 48, 102, 48, 102, 48, 102, 48, 102, 48, 102,
       48, 102, 48, 102, 48, 102, 48, 102, 48, 102, 48, 102, 48, 102, 48, 102, 48, 102,
       48, 102, 48, 102, 48, 102, 48, 102, 48, 102>>,
       <<77, 84, 65, 48, 101, 68, 107, 113, 77, 86, 90, 55, 78, 87, 120, 111, 77, 84, 89,
       120>>,
       <<131, 158, 146, 20, 69, 246, 178, 87, 202, 77, 109, 2, 204, 168, 242, 101, 119,
       124, 157, 109, 14, 248, 89, 72, 128, 69, 57, 59, 92, 228, 159, 40, 22, 192, 6, 48,
       193, 147, 241, 91, 233, 130, 53, 20, 5, 40, 61, 224, 123, 34, 14, 11, 154, 187,
       240, 8, 241, 204, 87, 84, 185, 130, 162, 133>>>>,
     <<<<48, 102, 48, 102, 48, 102, 48, 102, 48, 102, 48, 102, 48, 102, 48, 102, 48, 102,
       48, 102, 48, 102, 48, 102, 48, 102, 48, 102, 48, 102, 48, 102, 48, 102, 48, 102,
       48, 102, 48, 102, 48, 102, 48, 102, 48, 102, 48, 102, 48, 102, 48, 102, 48, 102,
       48, 102, 48, 102, 48, 102, 48, 102, 48, 102>>,
       <<77, 84, 65, 48, 101, 68, 107, 113, 77, 86, 90, 55, 78, 87, 120, 111, 77, 84, 99,
       120>>,
       <<244, 129, 180, 64, 51, 86, 74, 196, 167, 26, 238, 119, 33, 44, 52, 50, 111, 180,
       150, 224, 129, 130, 70, 208, 100, 66, 215, 243, 216, 33, 25, 88, 236, 138, 200, 70,
       79, 92, 145, 252, 75, 122, 198, 173, 141, 201, 178, 114, 124, 156, 77, 161, 22,
       126, 229, 215, 5, 189, 8, 242, 136, 140, 95, 207>>>>,
     <<<<48, 102, 48, 102, 48, 102, 48, 102, 48, 102, 48, 102, 48, 102, 48, 102, 48, 102,
       48, 102, 48, 102, 48, 102, 48, 102, 48, 102, 48, 102, 48, 102, 48, 102, 48, 102,
       48, 102, 48, 102, 48, 102, 48, 102, 48, 102, 48, 102, 48, 102, 48, 102, 48, 102,
       48, 102, 48, 102, 48, 102, 48, 102, 48, 102>>,
       <<77, 84, 65, 48, 101, 68, 107, 113, 77, 86, 90, 55, 78, 87, 120, 111, 77, 84, 103,
       120>>,
       <<72, 56, 181, 98, 88, 168, 103, 16, 206, 163, 63, 185, 161, 51, 152, 201, 182,
       128, 46, 216, 66, 171, 186, 106, 163, 255, 209, 7, 27, 58, 23, 88, 165, 47, 61, 63,
       179, 255, 139, 46, 43, 89, 238, 107, 34, 3, 31, 231, 16, 61, 99, 187, 113, 247, 61,
       240, 121, 154, 187, 208, 183, 117, 213, 31>>>>,
     <<<<48, 102, 48, 102, 48, 102, 48, 102, 48, 102, 48, 102, 48, 102, 48, 102, 48, 102,
       48, 102, 48, 102, 48, 102, 48, 102, 48, 102, 48, 102, 48, 102, 48, 102, 48, 102,
       48, 102, 48, 102, 48, 102, 48, 102, 48, 102, 48, 102, 48, 102, 48, 102, 48, 102,
       48, 102, 48, 102, 48, 102, 48, 102, 48, 102>>,
       <<77, 84, 65, 48, 101, 68, 107, 113, 77, 86, 90, 55, 78, 87, 120, 111, 77, 84, 107,
       120>>,
       <<95, 241, 164, 15, 249, 241, 128, 197, 80, 251, 231, 187, 239, 188, 192, 58, 234,
       212, 50, 218, 42, 17, 117, 42, 79, 88, 190, 193, 238, 169, 225, 158, 247, 51, 66,
       158, 0, 197, 170, 121, 108, 204, 170, 15, 206, 217, 170, 108, 207, 170, 138, 6,
       242, 209, 26, 229, 143, 249, 122, 177, 107, 45, 41, 200>>>>,
     <<<<48, 102, 48, 102, 48, 102, 48, 102, 48, 102, 48, 102, 48, 102, 48, 102, 48, 102,
       48, 102, 48, 102, 48, 102, 48, 102, 48, 102, 48, 102, 48, 102, 48, 102, 48, 102,
       48, 102, 48, 102, 48, 102, 48, 102, 48, 102, 48, 102, 48, 102, 48, 102, 48, 102,
       48, 102, 48, 102, 48, 102, 48, 102, 48, 102>>,
       <<77, 84, 65, 48, 101, 68, 107, 113, 77, 86, 90, 55, 78, 87, 120, 111, 77, 106, 65,
       120>>,
       <<146, 98, 233, 75, 49, 199, 134, 56, 127, 21, 222, 15, 78, 22, 23, 221, 42, 126,
       186, 244, 206, 66, 88, 104, 173, 242, 108, 239, 20, 72, 56, 44, 141, 116, 36, 184,
       221, 142, 92, 152, 241, 213, 138, 50, 18, 129, 71, 240, 88, 110, 15, 145, 164, 52,
       51, 33, 56, 192, 236, 48, 112, 192, 89, 193>>>>,
     <<<<48, 102, 48, 102, 48, 102, 48, 102, 48, 102, 48, 102, 48, 102, 48, 102, 48, 102,
       48, 102, 48, 102, 48, 102, 48, 102, 48, 102, 48, 102, 48, 102, 48, 102, 48, 102,
       48, 102, 48, 102, 48, 102, 48, 102, 48, 102, 48, 102, 48, 102, 48, 102, 48, 102,
       48, 102, 48, 102, 48, 102, 48, 102, 48, 102>>,
       <<77, 84, 65, 48, 101, 68, 107, 113, 77, 86, 90, 55, 78, 87, 120, 111, 77, 106,
       69>>,
       <<39, 38, 92, 232, 31, 243, 146, 218, 187, 215, 92, 239, 211, 94, 11, 57, 247, 229,
       222, 192, 197, 90, 164, 65, 184, 128, 79, 69, 3, 96, 73, 124, 90, 99, 150, 109,
       108, 103, 158, 90, 231, 52, 190, 81, 61, 223, 162, 255, 254, 250, 213, 199, 148,
       232, 190, 239, 143, 66, 41, 235, 159, 134, 1, 188>>>>,
     <<<<48, 102, 48, 102, 48, 102, 48, 102, 48, 102, 48, 102, 48, 102, 48, 102, 48, 102,
       48, 102, 48, 102, 48, 102, 48, 102, 48, 102, 48, 102, 48, 102, 48, 102, 48, 102,
       48, 102, 48, 102, 48, 102, 48, 102, 48, 102, 48, 102, 48, 102, 48, 102, 48, 102,
       48, 102, 48, 102, 48, 102, 48, 102, 48, 102>>,
       <<77, 84, 65, 48, 101, 68, 107, 113, 77, 86, 90, 55, 78, 87, 120, 111, 77, 106, 69,
       120>>,
       <<216, 182, 133, 94, 217, 198, 250, 123, 113, 40, 111, 105, 133, 241, 89, 4, 128,
       26, 206, 166, 157, 180, 49, 118, 217, 151, 172, 169, 232, 116, 4, 98, 121, 4, 144,
       138, 250, 116, 45, 17, 34, 6, 243, 176, 238, 160, 190, 100, 105, 186, 100, 83, 203,
       3, 58, 65, 255, 41, 70, 54, 83, 242, 112, 224>>>>,
     <<<<48, 102, 48, 102, 48, 102, 48, 102, 48, 102, 48, 102, 48, 102, 48, 102, 48, 102,
       48, 102, 48, 102, 48, 102, 48, 102, 48, 102, 48, 102, 48, 102, 48, 102, 48, 102,
       48, 102, 48, 102, 48, 102, 48, 102, 48, 102, 48, 102, 48, 102, 48, 102, 48, 102,
       48, 102, 48, 102, 48, 102, 48, 102, 48, 102>>,
       <<77, 84, 65, 48, 101, 68, 107, 113, 77, 86, 90, 55, 78, 87, 120, 111, 77, 106, 73,
       120>>,
       <<174, 178, 112, 207, 195, 126, 143, 131, 15, 140, 247, 219, 32, 233, 101, 228,
       161, 226, 243, 31, 89, 38, 94, 202, 181, 167, 57, 167, 70, 192, 212, 116, 175, 174,
       120, 212, 240, 36, 155, 251, 156, 210, 88, 138, 64, 118, 50, 205, 188, 238, 207,
       92, 100, 99, 144, 114, 231, 245, 187, 206, 30, 189, 175, 112>>>>,
     <<<<48, 102, 48, 102, 48, 102, 48, 102, 48, 102, 48, 102, 48, 102, 48, 102, 48, 102,
       48, 102, 48, 102, 48, 102, 48, 102, 48, 102, 48, 102, 48, 102, 48, 102, 48, 102,
       48, 102, 48, 102, 48, 102, 48, 102, 48, 102, 48, 102, 48, 102, 48, 102, 48, 102,
       48, 102, 48, 102, 48, 102, 48, 102, 48, 102>>,
       <<77, 84, 65, 48, 101, 68, 107, 113, 77, 86, 90, 55, 78, 87, 120, 111, 77, 106, 77,
       120>>,
       <<113, 108, 229, 221, 151, 238, 8, 135, 112, 82, 181, 183, 6, 80, 230, 31, 203,
       220, 101, 172, 128, 67, 123, 105, 5, 68, 133, 6, 181, 82, 250, 209, 103, 84, 97,
       201, 109, 65, 86, 239, 226, 223, 254, 160, 252, 17, 78, 136, 235, 24, 145, 52, 154,
       148, 254, 191, 52, 98, 128, 223, 9, 23, 113, 6>>>>,
     <<<<48, 102, 48, 102, 48, 102, 48, 102, 48, 102, 48, 102, 48, 102, 48, 102, 48, 102,
       48, 102, 48, 102, 48, 102, 48, 102, 48, 102, 48, 102, 48, 102, 48, 102, 48, 102,
       48, 102, 48, 102, 48, 102, 48, 102, 48, 102, 48, 102, 48, 102, 48, 102, 48, 102,
       48, 102, 48, 102, 48, 102, 48, 102, 48, 102>>,
       <<77, 84, 65, 48, 101, 68, 107, 113, 77, 86, 90, 55, 78, 87, 120, 111, 77, 106, 81,
       120>>,
       <<34, 234, 29, 25, 155, 118, 21, 178, 129, 132, 129, 62, 217, 92, 122, 182, 219,
       103, 132, 180, 229, 247, 16, 201, 254, 70, 142, 248, 39, 99, 148, 228, 124, 28, 36,
       81, 180, 222, 216, 154, 36, 86, 70, 234, 200, 34, 179, 239, 52, 233, 190, 217, 162,
       223, 62, 120, 80, 61, 140, 238, 136, 234, 233, 224>>>>,
     <<<<48, 102, 48, 102, 48, 102, 48, 102, 48, 102, 48, 102, 48, 102, 48, 102, 48, 102,
       48, 102, 48, 102, 48, 102, 48, 102, 48, 102, 48, 102, 48, 102, 48, 102, 48, 102,
       48, 102, 48, 102, 48, 102, 48, 102, 48, 102, 48, 102, 48, 102, 48, 102, 48, 102,
       48, 102, 48, 102, 48, 102, 48, 102, 48, 102>>,
       <<77, 84, 65, 48, 101, 68, 107, 113, 77, 86, 90, 55, 78, 87, 120, 111, 77, 106, 85,
       120>>,
       <<35, 180, 200, 209, 167, 249, 186, 98, 73, 195, 38, 223, 143, 243, 171, 115, 205,
       199, 163, 165, 136, 214, 170, 250, 110, 247, 218, 54, 126, 95, 51, 96, 168, 197,
       119, 35, 191, 101, 17, 46, 199, 251, 65, 194, 25, 17, 90, 225, 122, 182, 226, 24,
       79, 69, 155, 80, 191, 222, 10, 196, 147, 77, 168, 27>>>>,
     <<<<48, 102, 48, 102, 48, 102, 48, 102, 48, 102, 48, 102, 48, 102, 48, 102, 48, 102,
       48, 102, 48, 102, 48, 102, 48, 102, 48, 102, 48, 102, 48, 102, 48, 102, 48, 102,
       48, 102, 48, 102, 48, 102, 48, 102, 48, 102, 48, 102, 48, 102, 48, 102, 48, 102,
       48, 102, 48, 102, 48, 102, 48, 102, 48, 102>>,
       <<77, 84, 65, 48, 101, 68, 107, 113, 77, 86, 90, 55, 78, 87, 120, 111, 77, 106, 89,
       120>>,
       <<194, 162, 232, 117, 121, 21, 96, 141, 30, 194, 145, 79, 4, 255, 150, 28, 125,
       218, 150, 165, 64, 88, 59, 239, 241, 91, 109, 92, 32, 168, 78, 62, 126, 197, 215,
       242, 168, 13, 78, 124, 4, 12, 115, 106, 91, 95, 139, 14, 210, 30, 113, 140, 31, 7,
       181, 196, 151, 103, 173, 214, 214, 209, 137, 129>>>>,
     <<<<48, 102, 48, 102, 48, 102, 48, 102, 48, 102, 48, 102, 48, 102, 48, 102, 48, 102,
       48, 102, 48, 102, 48, 102, 48, 102, 48, 102, 48, 102, 48, 102, 48, 102, 48, 102,
       48, 102, 48, 102, 48, 102, 48, 102, 48, 102, 48, 102, 48, 102, 48, 102, 48, 102,
       48, 102, 48, 102, 48, 102, 48, 102, 48, 102>>,
       <<77, 84, 65, 48, 101, 68, 107, 113, 77, 86, 90, 55, 78, 87, 120, 111, 77, 106, 99,
       120>>,
       <<7, 209, 240, 145, 251, 154, 93, 73, 176, 121, 129, 96, 123, 239, 61, 134, 103,
       112, 164, 232, 16, 87, 64, 185, 181, 215, 48, 99, 120, 24, 27, 146, 90, 200, 249,
       46, 55, 185, 128, 87, 102, 60, 105, 211, 249, 242, 22, 160, 217, 237, 159, 27, 117,
       17, 80, 15, 222, 136, 251, 189, 207, 18, 1, 79>>>>,
     <<<<48, 102, 48, 102, 48, 102, 48, 102, 48, 102, 48, 102, 48, 102, 48, 102, 48, 102,
       48, 102, 48, 102, 48, 102, 48, 102, 48, 102, 48, 102, 48, 102, 48, 102, 48, 102,
       48, 102, 48, 102, 48, 102, 48, 102, 48, 102, 48, 102, 48, 102, 48, 102, 48, 102,
       48, 102, 48, 102, 48, 102, 48, 102, 48, 102>>,
       <<77, 84, 65, 48, 101, 68, 107, 113, 77, 86, 90, 55, 78, 87, 120, 111, 77, 106,
       103, 120>>,
       <<31, 199, 96, 161, 35, 95, 35, 80, 68, 54, 21, 175, 159, 105, 244, 185, 186, 0,
       115, 214, 120, 201, 196, 178, 55, 234, 176, 27, 107, 180, 172, 44, 165, 134, 68,
       244, 78, 53, 37, 108, 236, 210, 36, 173, 127, 113, 46, 238, 173, 180, 98, 126, 202,
       139, 100, 239, 243, 168, 25, 118, 193, 155, 112, 94>>>>,
     <<<<48, 102, 48, 102, 48, 102, 48, 102, 48, 102, 48, 102, 48, 102, 48, 102, 48, 102,
       48, 102, 48, 102, 48, 102, 48, 102, 48, 102, 48, 102, 48, 102, 48, 102, 48, 102,
       48, 102, 48, 102, 48, 102, 48, 102, 48, 102, 48, 102, 48, 102, 48, 102, 48, 102,
       48, 102, 48, 102, 48, 102, 48, 102, 48, 102>>,
       <<77, 84, 65, 48, 101, 68, 107, 113, 77, 86, 90, 55, 78, 87, 120, 111, 77, 106,
       107, 120>>,
       <<210, 106, 109, 114, 225, 47, 98, 72, 41, 92, 196, 242, 169, 233, 84, 159, 11,
       181, 64, 100, 162, 183, 154, 228, 188, 219, 143, 173, 185, 253, 219, 73, 121, 175,
       234, 241, 63, 4, 189, 187, 67, 75, 42, 25, 52, 19, 95, 102, 115, 95, 128, 152, 20,
       58, 167, 176, 166, 81, 133, 229, 108, 58, 48, 112>>>>,
     <<<<48, 102, 48, 102, 48, 102, 48, 102, 48, 102, 48, 102, 48, 102, 48, 102, 48, 102,
       48, 102, 48, 102, 48, 102, 48, 102, 48, 102, 48, 102, 48, 102, 48, 102, 48, 102,
       48, 102, 48, 102, 48, 102, 48, 102, 48, 102, 48, 102, 48, 102, 48, 102, 48, 102,
       48, 102, 48, 102, 48, 102, 48, 102, 48, 102>>,
       <<77, 84, 65, 48, 101, 68, 107, 113, 77, 86, 90, 55, 78, 87, 120, 111, 77, 122, 65,
       120>>,
       <<170, 28, 2, 134, 189, 154, 121, 155, 103, 215, 44, 218, 43, 253, 182, 172, 204,
       75, 95, 24, 78, 8, 51, 30, 227, 194, 86, 172, 110, 238, 78, 190, 9, 244, 70, 28, 0,
       61, 38, 66, 182, 110, 181, 180, 25, 168, 190, 187, 79, 79, 57, 175, 25, 145, 142,
       174, 72, 115, 191, 1, 168, 69, 31, 208>>>>,
     <<<<48, 102, 48, 102, 48, 102, 48, 102, 48, 102, 48, 102, 48, 102, 48, 102, 48, 102,
       48, 102, 48, 102, 48, 102, 48, 102, 48, 102, 48, 102, 48, 102, 48, 102, 48, 102,
       48, 102, 48, 102, 48, 102, 48, 102, 48, 102, 48, 102, 48, 102, 48, 102, 48, 102,
       48, 102, 48, 102, 48, 102, 48, 102, 48, 102>>,
       <<77, 84, 65, 48, 101, 68, 107, 113, 77, 86, 90, 55, 78, 87, 120, 111, 77, 122,
       69>>,
       <<49, 246, 108, 146, 238, 220, 49, 213, 203, 255, 42, 156, 148, 116, 51, 43, 77,
       83, 148, 61, 255, 233, 190, 252, 102, 248, 227, 38, 252, 204, 1, 234, 131, 247,
       191, 155, 172, 70, 211, 244, 245, 220, 131, 58, 102, 187, 12, 191, 192, 48, 111,
       52, 67, 5, 222, 254, 99, 121, 161, 97, 102, 215, 66, 103>>>>,
     <<<<48, 102, 48, 102, 48, 102, 48, 102, 48, 102, 48, 102, 48, 102, 48, 102, 48, 102,
       48, 102, 48, 102, 48, 102, 48, 102, 48, 102, 48, 102, 48, 102, 48, 102, 48, 102,
       48, 102, 48, 102, 48, 102, 48, 102, 48, 102, 48, 102, 48, 102, 48, 102, 48, 102,
       48, 102, 48, 102, 48, 102, 48, 102, 48, 102>>,
       <<77, 84, 65, 48, 101, 68, 107, 113, 77, 86, 90, 55, 78, 87, 120, 111, 77, 122, 69,
       120>>,
       <<37, 115, 251, 210, 239, 223, 212, 41, 160, 133, 228, 155, 238, 78, 17, 33, 66,
       77, 245, 71, 42, 231, 122, 59, 252, 144, 247, 101, 21, 81, 148, 219, 116, 210, 166,
       131, 208, 60, 151, 41, 74, 207, 173, 153, 43, 1, 95, 126, 127, 219, 216, 40, 91,
       214, 28, 236, 215, 216, 111, 190, 247, 50, 126, 215>>>>,
     <<<<48, 102, 48, 102, 48, 102, 48, 102, 48, 102, 48, 102, 48, 102, 48, 102, 48, 102,
       48, 102, 48, 102, 48, 102, 48, 102, 48, 102, 48, 102, 48, 102, 48, 102, 48, 102,
       48, 102, 48, 102, 48, 102, 48, 102, 48, 102, 48, 102, 48, 102, 48, 102, 48, 102,
       48, 102, 48, 102, 48, 102, 48, 102, 48, 102>>,
       <<77, 84, 65, 48, 101, 68, 107, 113, 77, 86, 90, 55, 78, 87, 120, 111, 77, 122, 73,
       120>>,
       <<233, 178, 187, 176, 10, 119, 10, 208, 158, 251, 63, 77, 170, 162, 111, 245, 236,
       174, 1, 37, 233, 245, 129, 31, 128, 36, 20, 209, 91, 201, 79, 41, 213, 179, 53,
       170, 233, 220, 93, 190, 71, 116, 25, 149, 239, 8, 206, 206, 176, 244, 141, 183,
       185, 44, 51, 118, 25, 81, 237, 22, 14, 229, 129, 147>>>>,
     <<<<48, 102, 48, 102, 48, 102, 48, 102, 48, 102, 48, 102, 48, 102, 48, 102, 48, 102,
       48, 102, 48, 102, 48, 102, 48, 102, 48, 102, 48, 102, 48, 102, 48, 102, 48, 102,
       48, 102, 48, 102, 48, 102, 48, 102, 48, 102, 48, 102, 48, 102, 48, 102, 48, 102,
       48, 102, 48, 102, 48, 102, 48, 102, 48, 102>>,
       <<77, 84, 65, 48, 101, 68, 107, 113, 77, 86, 90, 55, 78, 87, 120, 111, 77, 122, 77,
       120>>,
       <<227, 232, 135, 88, 147, 161, 155, 158, 79, 176, 128, 78, 202, 34, 151, 57, 113,
       101, 35, 121, 167, 164, 238, 50, 76, 183, 202, 89, 95, 255, 46, 87, 207, 189, 135,
       76, 68, 234, 215, 114, 168, 52, 131, 213, 206, 186, 40, 95, 150, 140, 239, 164, 88,
       173, 1, 185, 205, 45, 34, 100, 211, 216, 12, 116>>>>,
     <<<<48, 102, 48, 102, 48, 102, 48, 102, 48, 102, 48, 102, 48, 102, 48, 102, 48, 102,
       48, 102, 48, 102, 48, 102, 48, 102, 48, 102, 48, 102, 48, 102, 48, 102, 48, 102,
       48, 102, 48, 102, 48, 102, 48, 102, 48, 102, 48, 102, 48, 102, 48, 102, 48, 102,
       48, 102, 48, 102, 48, 102, 48, 102, 48, 102>>,
       <<77, 84, 65, 48, 101, 68, 107, 113, 77, 86, 90, 55, 78, 87, 120, 111, 77, 122, 81,
       120>>,
       <<129, 155, 2, 16, 114, 100, 239, 59, 162, 184, 134, 80, 82, 230, 244, 75, 232, 93,
       170, 46, 39, 180, 126, 10, 127, 123, 3, 128, 26, 115, 121, 164, 226, 172, 16, 202,
       136, 244, 72, 156, 162, 109, 30, 248, 205, 110, 69, 155, 199, 23, 153, 36, 240, 16,
       38, 136, 9, 182, 223, 218, 195, 227, 61, 167>>>>,
     <<<<48, 102, 48, 102, 48, 102, 48, 102, 48, 102, 48, 102, 48, 102, 48, 102, 48, 102,
       48, 102, 48, 102, 48, 102, 48, 102, 48, 102, 48, 102, 48, 102, 48, 102, 48, 102,
       48, 102, 48, 102, 48, 102, 48, 102, 48, 102, 48, 102, 48, 102, 48, 102, 48, 102,
       48, 102, 48, 102, 48, 102, 48, 102, 48, 102>>,
       <<77, 84, 65, 48, 101, 68, 107, 113, 77, 86, 90, 55, 78, 87, 120, 111, 77, 122, 85,
       120>>,
       <<36, 116, 132, 79, 246, 213, 37, 37, 155, 66, 40, 21, 151, 73, 103, 124, 100, 162,
       219, 202, 33, 255, 91, 131, 65, 175, 95, 218, 230, 225, 139, 164, 120, 153, 64, 93,
       255, 42, 194, 3, 52, 185, 151, 83, 118, 233, 70, 222, 115, 47, 193, 103, 148, 45,
       83, 17, 174, 171, 165, 108, 137, 217, 159, 93>>>>,
     <<<<48, 102, 48, 102, 48, 102, 48, 102, 48, 102, 48, 102, 48, 102, 48, 102, 48, 102,
       48, 102, 48, 102, 48, 102, 48, 102, 48, 102, 48, 102, 48, 102, 48, 102, 48, 102,
       48, 102, 48, 102, 48, 102, 48, 102, 48, 102, 48, 102, 48, 102, 48, 102, 48, 102,
       48, 102, 48, 102, 48, 102, 48, 102, 48, 102>>,
       <<77, 84, 65, 48, 101, 68, 107, 113, 77, 86, 90, 55, 78, 87, 120, 111, 77, 122, 89,
       120>>,
       <<142, 183, 130, 2, 53, 172, 94, 65, 90, 76, 152, 228, 245, 0, 179, 29, 9, 31, 81,
       185, 10, 255, 61, 102, 27, 30, 144, 37, 165, 39, 102, 233, 239, 50, 28, 236, 44,
       159, 175, 227, 206, 131, 220, 122, 26, 78, 224, 126, 184, 209, 168, 253, 108, 205,
       38, 71, 183, 160, 231, 211, 10, 97, 91, 18>>>>,
     <<<<48, 102, 48, 102, 48, 102, 48, 102, 48, 102, 48, 102, 48, 102, 48, 102, 48, 102,
       48, 102, 48, 102, 48, 102, 48, 102, 48, 102, 48, 102, 48, 102, 48, 102, 48, 102,
       48, 102, 48, 102, 48, 102, 48, 102, 48, 102, 48, 102, 48, 102, 48, 102, 48, 102,
       48, 102, 48, 102, 48, 102, 48, 102, 48, 102>>,
       <<77, 84, 65, 48, 101, 68, 107, 113, 77, 86, 90, 55, 78, 87, 120, 111, 77, 122, 99,
       120>>,
       <<14, 116, 235, 123, 51, 246, 120, 115, 126, 36, 124, 104, 114, 255, 60, 249, 201,
       229, 169, 25, 61, 215, 76, 253, 87, 251, 237, 101, 173, 234, 101, 129, 5, 120, 233,
       163, 220, 223, 220, 165, 106, 160, 228, 63, 90, 183, 204, 254, 127, 54, 183, 179,
       195, 184, 115, 9, 147, 105, 201, 206, 82, 202, 16, 150>>>>,
     <<<<48, 102, 48, 102, 48, 102, 48, 102, 48, 102, 48, 102, 48, 102, 48, 102, 48, 102,
       48, 102, 48, 102, 48, 102, 48, 102, 48, 102, 48, 102, 48, 102, 48, 102, 48, 102,
       48, 102, 48, 102, 48, 102, 48, 102, 48, 102, 48, 102, 48, 102, 48, 102, 48, 102,
       48, 102, 48, 102, 48, 102, 48, 102, 48, 102>>,
       <<77, 84, 65, 48, 101, 68, 107, 113, 77, 86, 90, 55, 78, 87, 120, 111, 77, 122,
       103, 120>>,
       <<170, 104, 55, 150, 233, 113, 14, 30, 186, 156, 253, 42, 194, 115, 132, 29, 10,
       31, 134, 251, 126, 65, 111, 193, 234, 200, 168, 30, 100, 33, 56, 95, 63, 166, 140,
       67, 31, 117, 150, 70, 131, 169, 54, 177, 159, 32, 114, 178, 90, 215, 193, 99, 39,
       220, 98, 154, 251, 228, 2, 161, 10, 4, 135, 216>>>>,
     <<<<48, 102, 48, 102, 48, 102, 48, 102, 48, 102, 48, 102, 48, 102, 48, 102, 48, 102,
       48, 102, 48, 102, 48, 102, 48, 102, 48, 102, 48, 102, 48, 102, 48, 102, 48, 102,
       48, 102, 48, 102, 48, 102, 48, 102, 48, 102, 48, 102, 48, 102, 48, 102, 48, 102,
       48, 102, 48, 102, 48, 102, 48, 102, 48, 102>>,
       <<77, 84, 65, 48, 101, 68, 107, 113, 77, 86, 90, 55, 78, 87, 120, 111, 77, 122,
       107, 120>>,
       <<79, 219, 255, 94, 67, 144, 205, 25, 146, 239, 233, 185, 127, 194, 90, 178, 144,
       196, 196, 219, 249, 242, 79, 80, 255, 0, 255, 28, 186, 30, 26, 175, 205, 131, 232,
       101, 32, 230, 217, 66, 176, 10, 68, 149, 52, 225, 241, 79, 185, 148, 137, 26, 136,
       62, 87, 114, 19, 62, 220, 97, 86, 163, 83, 196>>>>,
     <<<<48, 102, 48, 102, 48, 102, 48, 102, 48, 102, 48, 102, 48, 102, 48, 102, 48, 102,
       48, 102, 48, 102, 48, 102, 48, 102, 48, 102, 48, 102, 48, 102, 48, 102, 48, 102,
       48, 102, 48, 102, 48, 102, 48, 102, 48, 102, 48, 102, 48, 102, 48, 102, 48, 102,
       48, 102, 48, 102, 48, 102, 48, 102, 48, 102>>,
       <<77, 84, 65, 48, 101, 68, 107, 113, 77, 86, 90, 55, 78, 87, 120, 111, 78, 68, 65,
       120>>,
       <<188, 227, 29, 5, 179, 238, 8, 201, 215, 79, 42, 206, 14, 97, 155, 87, 249, 90,
       252, 202, 88, 178, 0, 111, 205, 224, 211, 109, 178, 49, 15, 158, 139, 114, 38, 120,
       117, 212, 72, 165, 76, 17, 14, 91, 45, 157, 54, 116, 169, 171, 96, 226, 210, 19,
       233, 60, 140, 220, 121, 165, 193, 3, 216, 98>>>>,
     <<<<48, 102, 48, 102, 48, 102, 48, 102, 48, 102, 48, 102, 48, 102, 48, 102, 48, 102,
       48, 102, 48, 102, 48, 102, 48, 102, 48, 102, 48, 102, 48, 102, 48, 102, 48, 102,
       48, 102, 48, 102, 48, 102, 48, 102, 48, 102, 48, 102, 48, 102, 48, 102, 48, 102,
       48, 102, 48, 102, 48, 102, 48, 102, 48, 102>>,
       <<77, 84, 65, 48, 101, 68, 107, 113, 77, 86, 90, 55, 78, 87, 120, 111, 78, 68, 69>>,
       <<81, 114, 116, 198, 211, 225, 83, 94, 102, 244, 83, 235, 52, 71, 239, 91, 71, 223,
       39, 253, 90, 7, 251, 136, 249, 133, 215, 179, 225, 85, 245, 101, 35, 10, 80, 18,
       116, 54, 246, 69, 109, 165, 224, 94, 64, 34, 61, 231, 154, 53, 206, 175, 219, 97,
       177, 148, 26, 67, 35, 84, 121, 67, 150, 85>>>>,
     <<<<48, 102, 48, 102, 48, 102, 48, 102, 48, 102, 48, 102, 48, 102, 48, 102, 48, 102,
       48, 102, 48, 102, 48, 102, 48, 102, 48, 102, 48, 102, 48, 102, 48, 102, 48, 102,
       48, 102, 48, 102, 48, 102, 48, 102, 48, 102, 48, 102, 48, 102, 48, 102, 48, 102,
       48, 102, 48, 102, 48, 102, 48, 102, 48, 102>>,
       <<77, 84, 65, 48, 101, 68, 107, 113, 77, 86, 90, 55, 78, 87, 120, 111, 78, 68, 69,
       120>>,
       <<231, 81, 66, 150, 114, 167, 213, 150, 44, 44, 144, 169, 18, 165, 156, 21, 84,
       153, 124, 151, 231, 195, 111, 84, 20, 216, 176, 19, 99, 42, 230, 27, 130, 40, 42,
       155, 4, 32, 102, 100, 10, 130, 162, 78, 51, 126, 6, 129, 141, 116, 119, 107, 87, 6,
       143, 62, 174, 125, 14, 19, 155, 122, 20, 182>>>>,
     <<<<48, 102, 48, 102, 48, 102, 48, 102, 48, 102, 48, 102, 48, 102, 48, 102, 48, 102,
       48, 102, 48, 102, 48, 102, 48, 102, 48, 102, 48, 102, 48, 102, 48, 102, 48, 102,
       48, 102, 48, 102, 48, 102, 48, 102, 48, 102, 48, 102, 48, 102, 48, 102, 48, 102,
       48, 102, 48, 102, 48, 102, 48, 102, 48, 102>>,
       <<77, 84, 65, 48, 101, 68, 107, 113, 77, 86, 90, 55, 78, 87, 120, 111, 78, 68, 73,
       120>>,
       <<233, 84, 30, 128, 205, 160, 53, 158, 78, 234, 218, 122, 112, 116, 137, 52, 13,
       47, 209, 253, 231, 23, 228, 138, 131, 5, 31, 148, 25, 87, 149, 193, 123, 33, 99,
       229, 160, 169, 104, 154, 180, 224, 203, 149, 67, 35, 99, 210, 133, 38, 20, 109, 61,
       111, 78, 194, 126, 213, 58, 236, 189, 201, 184, 203>>>>,
     <<<<48, 102, 48, 102, 48, 102, 48, 102, 48, 102, 48, 102, 48, 102, 48, 102, 48, 102,
       48, 102, 48, 102, 48, 102, 48, 102, 48, 102, 48, 102, 48, 102, 48, 102, 48, 102,
       48, 102, 48, 102, 48, 102, 48, 102, 48, 102, 48, 102, 48, 102, 48, 102, 48, 102,
       48, 102, 48, 102, 48, 102, 48, 102, 48, 102>>,
       <<77, 84, 65, 48, 101, 68, 107, 113, 77, 86, 90, 55, 78, 87, 120, 111, 78, 68, 77,
       120>>,
       <<229, 100, 233, 143, 7, 225, 27, 16, 10, 27, 135, 240, 127, 34, 173, 102, 92, 110,
       10, 169, 120, 0, 223, 72, 179, 39, 18, 178, 83, 247, 113, 50, 1, 238, 201, 56, 18,
       150, 193, 183, 255, 152, 131, 72, 65, 64, 184, 4, 82, 157, 17, 84, 105, 152, 22,
       134, 204, 78, 0, 49, 59, 254, 244, 111>>>>,
     <<<<48, 102, 48, 102, 48, 102, 48, 102, 48, 102, 48, 102, 48, 102, 48, 102, 48, 102,
       48, 102, 48, 102, 48, 102, 48, 102, 48, 102, 48, 102, 48, 102, 48, 102, 48, 102,
       48, 102, 48, 102, 48, 102, 48, 102, 48, 102, 48, 102, 48, 102, 48, 102, 48, 102,
       48, 102, 48, 102, 48, 102, 48, 102, 48, 102>>,
       <<77, 84, 65, 48, 101, 68, 107, 113, 77, 86, 90, 55, 78, 87, 120, 111, 78, 68, 81,
       120>>,
       <<143, 8, 70, 240, 189, 59, 193, 251, 116, 123, 127, 126, 63, 0, 84, 174, 243, 49,
       211, 67, 11, 7, 2, 151, 93, 23, 115, 181, 135, 43, 75, 42, 70, 13, 173, 142, 45,
       203, 174, 218, 60, 129, 126, 220, 76, 164, 69, 177, 34, 5, 133, 8, 127, 205, 204,
       181, 158, 137, 205, 137, 29, 221, 168, 116>>>>,
     <<<<48, 102, 48, 102, 48, 102, 48, 102, 48, 102, 48, 102, 48, 102, 48, 102, 48, 102,
       48, 102, 48, 102, 48, 102, 48, 102, 48, 102, 48, 102, 48, 102, 48, 102, 48, 102,
       48, 102, 48, 102, 48, 102, 48, 102, 48, 102, 48, 102, 48, 102, 48, 102, 48, 102,
       48, 102, 48, 102, 48, 102, 48, 102, 48, 102>>,
       <<77, 84, 65, 48, 101, 68, 107, 113, 77, 86, 90, 55, 78, 87, 120, 111, 78, 68, 85,
       120>>,
       <<150, 41, 233, 1, 225, 167, 44, 96, 118, 189, 206, 201, 25, 140, 2, 254, 153, 158,
       145, 166, 25, 205, 234, 144, 8, 222, 117, 23, 252, 157, 147, 108, 215, 115, 173,
       171, 44, 64, 128, 120, 165, 158, 67, 33, 12, 76, 21, 13, 208, 1, 21, 207, 71, 57,
       222, 143, 160, 23, 119, 225, 18, 40, 207, 126>>>>,
     <<<<48, 102, 48, 102, 48, 102, 48, 102, 48, 102, 48, 102, 48, 102, 48, 102, 48, 102,
       48, 102, 48, 102, 48, 102, 48, 102, 48, 102, 48, 102, 48, 102, 48, 102, 48, 102,
       48, 102, 48, 102, 48, 102, 48, 102, 48, 102, 48, 102, 48, 102, 48, 102, 48, 102,
       48, 102, 48, 102, 48, 102, 48, 102, 48, 102>>,
       <<77, 84, 65, 48, 101, 68, 107, 113, 77, 86, 90, 55, 78, 87, 120, 111, 78, 68, 89,
       120>>,
       <<95, 182, 205, 172, 202, 52, 233, 169, 137, 2, 111, 121, 83, 67, 140, 98, 182,
       191, 229, 211, 39, 63, 3, 103, 45, 42, 114, 246, 236, 143, 5, 15, 209, 14, 226,
       210, 230, 67, 195, 83, 238, 246, 234, 220, 64, 74, 150, 81, 69, 166, 96, 74, 182,
       111, 116, 125, 142, 207, 145, 26, 143, 53, 139, 6>>>>,
     <<<<48, 102, 48, 102, 48, 102, 48, 102, 48, 102, 48, 102, 48, 102, 48, 102, 48, 102,
       48, 102, 48, 102, 48, 102, 48, 102, 48, 102, 48, 102, 48, 102, 48, 102, 48, 102,
       48, 102, 48, 102, 48, 102, 48, 102, 48, 102, 48, 102, 48, 102, 48, 102, 48, 102,
       48, 102, 48, 102, 48, 102, 48, 102, 48, 102>>,
       <<77, 84, 65, 48, 101, 68, 107, 113, 77, 86, 90, 55, 78, 87, 120, 111, 78, 68, 99,
       120>>,
       <<209, 218, 255, 123, 51, 88, 20, 173, 58, 214, 168, 109, 255, 23, 238, 250, 82,
       209, 148, 153, 126, 128, 103, 28, 177, 26, 215, 164, 138, 214, 84, 249, 176, 146,
       174, 105, 61, 201, 125, 69, 84, 210, 251, 63, 142, 51, 185, 56, 90, 169, 124, 207,
       213, 162, 41, 38, 124, 201, 69, 191, 139, 36, 255, 16>>>>,
     <<<<48, 102, 48, 102, 48, 102, 48, 102, 48, 102, 48, 102, 48, 102, 48, 102, 48, 102,
       48, 102, 48, 102, 48, 102, 48, 102, 48, 102, 48, 102, 48, 102, 48, 102, 48, 102,
       48, 102, 48, 102, 48, 102, 48, 102, 48, 102, 48, 102, 48, 102, 48, 102, 48, 102,
       48, 102, 48, 102, 48, 102, 48, 102, 48, 102>>,
       <<77, 84, 65, 48, 101, 68, 107, 113, 77, 86, 90, 55, 78, 87, 120, 111, 78, 68, 103,
       120>>,
       <<215, 126, 237, 171, 133, 74, 237, 225, 142, 217, 143, 45, 28, 60, 43, 166, 218,
       155, 123, 34, 16, 157, 160, 144, 121, 49, 86, 234, 145, 32, 99, 231, 125, 172, 179,
       190, 120, 93, 168, 222, 229, 199, 40, 57, 214, 114, 162, 195, 77, 240, 107, 164,
       159, 85, 167, 239, 61, 166, 58, 86, 116, 139, 32, 115>>>>,
     <<<<48, 102, 48, 102, 48, 102, 48, 102, 48, 102, 48, 102, 48, 102, 48, 102, 48, 102,
       48, 102, 48, 102, 48, 102, 48, 102, 48, 102, 48, 102, 48, 102, 48, 102, 48, 102,
       48, 102, 48, 102, 48, 102, 48, 102, 48, 102, 48, 102, 48, 102, 48, 102, 48, 102,
       48, 102, 48, 102, 48, 102, 48, 102, 48, 102>>,
       <<77, 84, 65, 48, 101, 68, 107, 113, 77, 86, 90, 55, 78, 87, 120, 111, 78, 68, 107,
       120>>,
       <<35, 133, 226, 233, 17, 119, 144, 145, 43, 244, 153, 252, 151, 32, 183, 109, 223,
       47, 76, 35, 46, 93, 117, 137, 171, 74, 107, 8, 180, 202, 178, 179, 48, 119, 200,
       131, 88, 54, 53, 188, 98, 34, 152, 223, 182, 141, 225, 186, 202, 118, 95, 112, 200,
       224, 250, 96, 242, 193, 115, 8, 23, 118, 243, 145>>>>,
     <<<<48, 102, 48, 102, 48, 102, 48, 102, 48, 102, 48, 102, 48, 102, 48, 102, 48, 102,
       48, 102, 48, 102, 48, 102, 48, 102, 48, 102, 48, 102, 48, 102, 48, 102, 48, 102,
       48, 102, 48, 102, 48, 102, 48, 102, 48, 102, 48, 102, 48, 102, 48, 102, 48, 102,
       48, 102, 48, 102, 48, 102, 48, 102, 48, 102>>,
       <<77, 84, 65, 48, 101, 68, 107, 113, 77, 86, 90, 55, 78, 87, 120, 111, 78, 84, 65,
       120>>,
       <<10, 255, 117, 179, 56, 241, 121, 78, 111, 116, 25, 215, 82, 81, 95, 215, 204,
       136, 20, 87, 150, 235, 85, 68, 47, 224, 155, 177, 15, 120, 149, 241, 102, 238, 36,
       153, 51, 103, 90, 126, 166, 4, 92, 149, 227, 238, 30, 6, 163, 255, 1, 71, 185, 167,
       235, 213, 140, 183, 157, 99, 221, 213, 232, 106>>>>,
     <<<<48, 102, 48, 102, 48, 102, 48, 102, 48, 102, 48, 102, 48, 102, 48, 102, 48, 102,
       48, 102, 48, 102, 48, 102, 48, 102, 48, 102, 48, 102, 48, 102, 48, 102, 48, 102,
       48, 102, 48, 102, 48, 102, 48, 102, 48, 102, 48, 102, 48, 102, 48, 102, 48, 102,
       48, 102, 48, 102, 48, 102, 48, 102, 48, 102>>,
       <<77, 84, 65, 48, 101, 68, 107, 113, 77, 86, 90, 55, 78, 87, 120, 111, 78, 84, 69>>,
       <<215, 149, 108, 254, 153, 221, 47, 243, 238, 209, 91, 255, 209, 63, 234, 59, 83,
       170, 20, 70, 230, 79, 216, 31, 193, 48, 7, 238, 248, 224, 33, 140, 128, 101, 228,
       230, 30, 252, 138, 140, 94, 16, 16, 109, 104, 174, 49, 219, 7, 185, 37, 113, 220,
       43, 24, 194, 51, 73, 225, 47, 191, 25, 120, 119>>>>,
     <<<<48, 102, 48, 102, 48, 102, 48, 102, 48, 102, 48, 102, 48, 102, 48, 102, 48, 102,
       48, 102, 48, 102, 48, 102, 48, 102, 48, 102, 48, 102, 48, 102, 48, 102, 48, 102,
       48, 102, 48, 102, 48, 102, 48, 102, 48, 102, 48, 102, 48, 102, 48, 102, 48, 102,
       48, 102, 48, 102, 48, 102, 48, 102, 48, 102>>,
       <<77, 84, 65, 48, 101, 68, 107, 113, 77, 86, 90, 55, 78, 87, 120, 111, 78, 84, 69,
       120>>,
       <<21, 178, 78, 162, 20, 207, 120, 49, 188, 95, 40, 8, 52, 88, 241, 146, 110, 56,
       246, 134, 252, 187, 163, 129, 16, 156, 137, 181, 251, 250, 49, 42, 213, 225, 221,
       5, 69, 23, 121, 145, 172, 208, 33, 250, 248, 194, 83, 202, 26, 24, 14, 158, 182,
       86, 54, 101, 11, 122, 111, 0, 86, 170, 160, 59>>>>,
     <<<<48, 102, 48, 102, 48, 102, 48, 102, 48, 102, 48, 102, 48, 102, 48, 102, 48, 102,
       48, 102, 48, 102, 48, 102, 48, 102, 48, 102, 48, 102, 48, 102, 48, 102, 48, 102,
       48, 102, 48, 102, 48, 102, 48, 102, 48, 102, 48, 102, 48, 102, 48, 102, 48, 102,
       48, 102, 48, 102, 48, 102, 48, 102, 48, 102>>,
       <<77, 84, 65, 48, 101, 68, 107, 113, 77, 86, 90, 55, 78, 87, 120, 111, 78, 84, 73,
       120>>,
       <<211, 224, 185, 229, 51, 190, 45, 211, 197, 151, 1, 169, 184, 27, 184, 59, 74,
       249, 39, 146, 78, 58, 164, 80, 228, 203, 135, 199, 92, 155, 159, 252, 47, 174, 107,
       205, 228, 209, 163, 118, 104, 45, 129, 16, 69, 232, 113, 243, 234, 129, 5, 150, 13,
       84, 83, 108, 41, 7, 170, 96, 23, 73, 159, 211>>>>,
     <<<<48, 102, 48, 102, 48, 102, 48, 102, 48, 102, 48, 102, 48, 102, 48, 102, 48, 102,
       48, 102, 48, 102, 48, 102, 48, 102, 48, 102, 48, 102, 48, 102, 48, 102, 48, 102,
       48, 102, 48, 102, 48, 102, 48, 102, 48, 102, 48, 102, 48, 102, 48, 102, 48, 102,
       48, 102, 48, 102, 48, 102, 48, 102, 48, 102>>,
       <<77, 84, 65, 48, 101, 68, 107, 113, 77, 86, 90, 55, 78, 87, 120, 111, 78, 84, 77,
       120>>,
       <<72, 249, 131, 147, 19, 117, 204, 232, 13, 186, 64, 146, 80, 146, 50, 9, 33, 89,
       113, 234, 45, 2, 212, 92, 109, 165, 231, 125, 137, 11, 12, 14, 92, 12, 119, 147,
       133, 237, 205, 199, 96, 116, 213, 252, 205, 65, 97, 113, 62, 61, 122, 239, 49, 149,
       184, 31, 212, 8, 136, 141, 254, 76, 143, 40>>>>,
     <<<<48, 102, 48, 102, 48, 102, 48, 102, 48, 102, 48, 102, 48, 102, 48, 102, 48, 102,
       48, 102, 48, 102, 48, 102, 48, 102, 48, 102, 48, 102, 48, 102, 48, 102, 48, 102,
       48, 102, 48, 102, 48, 102, 48, 102, 48, 102, 48, 102, 48, 102, 48, 102, 48, 102,
       48, 102, 48, 102, 48, 102, 48, 102, 48, 102>>,
       <<77, 84, 65, 48, 101, 68, 107, 113, 77, 86, 90, 55, 78, 87, 120, 111, 78, 84, 81,
       120>>,
       <<157, 22, 46, 166, 196, 82, 174, 168, 100, 160, 139, 23, 171, 179, 185, 22, 164,
       69, 136, 37, 108, 184, 206, 36, 196, 98, 79, 12, 88, 51, 98, 100, 53, 52, 23, 71,
       164, 87, 142, 175, 246, 14, 50, 25, 166, 227, 30, 224, 73, 94, 178, 39, 96, 61, 82,
       190, 69, 37, 85, 218, 238, 246, 121, 22>>>>,
     <<<<48, 102, 48, 102, 48, 102, 48, 102, 48, 102, 48, 102, 48, 102, 48, 102, 48, 102,
       48, 102, 48, 102, 48, 102, 48, 102, 48, 102, 48, 102, 48, 102, 48, 102, 48, 102,
       48, 102, 48, 102, 48, 102, 48, 102, 48, 102, 48, 102, 48, 102, 48, 102, 48, 102,
       48, 102, 48, 102, 48, 102, 48, 102, 48, 102>>,
       <<77, 84, 65, 48, 101, 68, 107, 113, 77, 86, 90, 55, 78, 87, 120, 111, 78, 84, 85,
       120>>,
       <<205, 105, 151, 20, 88, 245, 226, 72, 218, 199, 133, 20, 174, 166, 244, 227, 217,
       147, 252, 212, 223, 197, 234, 208, 212, 198, 170, 56, 58, 135, 237, 60, 195, 192,
       133, 82, 15, 195, 87, 230, 67, 34, 147, 240, 206, 154, 66, 110, 202, 165, 34, 45,
       168, 101, 92, 95, 5, 82, 72, 121, 216, 193, 222, 99>>>>,
     <<<<48, 102, 48, 102, 48, 102, 48, 102, 48, 102, 48, 102, 48, 102, 48, 102, 48, 102,
       48, 102, 48, 102, 48, 102, 48, 102, 48, 102, 48, 102, 48, 102, 48, 102, 48, 102,
       48, 102, 48, 102, 48, 102, 48, 102, 48, 102, 48, 102, 48, 102, 48, 102, 48, 102,
       48, 102, 48, 102, 48, 102, 48, 102, 48, 102>>,
       <<77, 84, 65, 48, 101, 68, 107, 113, 77, 86, 90, 55, 78, 87, 120, 111, 78, 84, 89,
       120>>,
       <<208, 197, 64, 187, 3, 9, 54, 92, 166, 162, 15, 113, 162, 86, 254, 59, 113, 31,
       11, 201, 19, 241, 142, 150, 4, 114, 56, 22, 229, 159, 183, 36, 239, 115, 159, 203,
       195, 59, 181, 83, 114, 120, 176, 27, 167, 42, 34, 40, 73, 246, 73, 176, 186, 228,
       204, 64, 67, 39, 203, 237, 69, 171, 177, 87>>>>,
     <<<<48, 102, 48, 102, 48, 102, 48, 102, 48, 102, 48, 102, 48, 102, 48, 102, 48, 102,
       48, 102, 48, 102, 48, 102, 48, 102, 48, 102, 48, 102, 48, 102, 48, 102, 48, 102,
       48, 102, 48, 102, 48, 102, 48, 102, 48, 102, 48, 102, 48, 102, 48, 102, 48, 102,
       48, 102, 48, 102, 48, 102, 48, 102, 48, 102>>,
       <<77, 84, 65, 48, 101, 68, 107, 113, 77, 86, 90, 55, 78, 87, 120, 111, 78, 84, 99,
       120>>,
       <<180, 78, 248, 240, 124, 86, 85, 8, 66, 94, 129, 248, 146, 150, 223, 143, 158, 45,
       55, 115, 105, 129, 249, 78, 217, 54, 144, 81, 18, 131, 142, 112, 210, 67, 61, 174,
       143, 97, 204, 38, 71, 148, 181, 92, 76, 44, 118, 76, 34, 199, 192, 176, 238, 27,
       213, 128, 221, 236, 46, 78, 219, 113, 88, 210>>>>,
     <<<<48, 102, 48, 102, 48, 102, 48, 102, 48, 102, 48, 102, 48, 102, 48, 102, 48, 102,
       48, 102, 48, 102, 48, 102, 48, 102, 48, 102, 48, 102, 48, 102, 48, 102, 48, 102,
       48, 102, 48, 102, 48, 102, 48, 102, 48, 102, 48, 102, 48, 102, 48, 102, 48, 102,
       48, 102, 48, 102, 48, 102, 48, 102, 48, 102>>,
       <<77, 84, 65, 48, 101, 68, 107, 113, 77, 86, 90, 55, 78, 87, 120, 111, 78, 84, 103,
       120>>,
       <<60, 56, 100, 27, 214, 106, 167, 59, 201, 10, 236, 105, 172, 63, 112, 139, 203,
       199, 109, 186, 68, 126, 150, 42, 112, 163, 33, 65, 238, 51, 203, 180, 2, 179, 151,
       148, 123, 254, 81, 187, 200, 40, 119, 228, 6, 73, 17, 28, 62, 31, 2, 82, 10, 197,
       214, 57, 163, 81, 70, 85, 137, 2, 122, 198>>>>,
     <<<<48, 102, 48, 102, 48, 102, 48, 102, 48, 102, 48, 102, 48, 102, 48, 102, 48, 102,
       48, 102, 48, 102, 48, 102, 48, 102, 48, 102, 48, 102, 48, 102, 48, 102, 48, 102,
       48, 102, 48, 102, 48, 102, 48, 102, 48, 102, 48, 102, 48, 102, 48, 102, 48, 102,
       48, 102, 48, 102, 48, 102, 48, 102, 48, 102>>,
       <<77, 84, 65, 48, 101, 68, 107, 113, 77, 86, 90, 55, 78, 87, 120, 111, 78, 84, 107,
       120>>,
       <<183, 245, 187, 116, 15, 127, 63, 127, 165, 0, 59, 19, 145, 133, 37, 39, 231, 178,
       98, 180, 62, 127, 72, 83, 253, 189, 216, 189, 40, 171, 253, 229, 71, 63, 115, 101,
       107, 125, 183, 46, 14, 135, 37, 246, 4, 33, 85, 156, 55, 166, 21, 34, 77, 242, 228,
       199, 213, 65, 66, 126, 71, 90, 30, 3>>>>,
     <<<<48, 102, 48, 102, 48, 102, 48, 102, 48, 102, 48, 102, 48, 102, 48, 102, 48, 102,
       48, 102, 48, 102, 48, 102, 48, 102, 48, 102, 48, 102, 48, 102, 48, 102, 48, 102,
       48, 102, 48, 102, 48, 102, 48, 102, 48, 102, 48, 102, 48, 102, 48, 102, 48, 102,
       48, 102, 48, 102, 48, 102, 48, 102, 48, 102>>,
       <<77, 84, 65, 48, 101, 68, 107, 113, 77, 86, 90, 55, 78, 87, 120, 111, 78, 106, 65,
       120>>,
       <<16, 70, 165, 82, 224, 15, 228, 57, 35, 238, 21, 54, 251, 210, 240, 232, 50, 108,
       113, 222, 99, 233, 73, 30, 137, 52, 57, 217, 64, 153, 18, 11, 237, 135, 225, 59,
       225, 197, 72, 218, 83, 51, 98, 62, 114, 57, 188, 215, 103, 130, 172, 125, 15, 146,
       94, 61, 252, 220, 193, 92, 203, 159, 0, 122>>>>,
     <<<<48, 102, 48, 102, 48, 102, 48, 102, 48, 102, 48, 102, 48, 102, 48, 102, 48, 102,
       48, 102, 48, 102, 48, 102, 48, 102, 48, 102, 48, 102, 48, 102, 48, 102, 48, 102,
       48, 102, 48, 102, 48, 102, 48, 102, 48, 102, 48, 102, 48, 102, 48, 102, 48, 102,
       48, 102, 48, 102, 48, 102, 48, 102, 48, 102>>,
       <<77, 84, 65, 48, 101, 68, 107, 113, 77, 86, 90, 55, 78, 87, 120, 111, 78, 106,
       69>>,
       <<137, 83, 251, 203, 201, 12, 39, 97, 75, 97, 57, 144, 23, 0, 130, 216, 163, 161,
       41, 81, 15, 42, 142, 4, 227, 122, 237, 214, 68, 186, 175, 105, 55, 54, 78, 6, 91,
       147, 247, 44, 222, 22, 84, 158, 114, 120, 174, 155, 7, 34, 188, 15, 164, 78, 33,
       71, 170, 87, 72, 184, 252, 62, 58, 128>>>>,
     <<<<48, 102, 48, 102, 48, 102, 48, 102, 48, 102, 48, 102, 48, 102, 48, 102, 48, 102,
       48, 102, 48, 102, 48, 102, 48, 102, 48, 102, 48, 102, 48, 102, 48, 102, 48, 102,
       48, 102, 48, 102, 48, 102, 48, 102, 48, 102, 48, 102, 48, 102, 48, 102, 48, 102,
       48, 102, 48, 102, 48, 102, 48, 102, 48, 102>>,
       <<77, 84, 65, 48, 101, 68, 107, 113, 77, 86, 90, 55, 78, 87, 120, 111, 78, 106, 69,
       120>>,
       <<4, 146, 102, 141, 123, 235, 114, 174, 214, 169, 102, 170, 119, 77, 122, 209, 149,
       2, 149, 19, 65, 191, 170, 214, 127, 228, 41, 141, 223, 51, 69, 93, 2, 137, 13, 6,
       6, 113, 84, 234, 234, 60, 18, 202, 186, 146, 197, 145, 68, 37, 6, 23, 136, 122,
       178, 215, 249, 60, 232, 115, 205, 126, 46, 208>>>>,
     <<<<48, 102, 48, 102, 48, 102, 48, 102, 48, 102, 48, 102, 48, 102, 48, 102, 48, 102,
       48, 102, 48, 102, 48, 102, 48, 102, 48, 102, 48, 102, 48, 102, 48, 102, 48, 102,
       48, 102, 48, 102, 48, 102, 48, 102, 48, 102, 48, 102, 48, 102, 48, 102, 48, 102,
       48, 102, 48, 102, 48, 102, 48, 102, 48, 102>>,
       <<77, 84, 65, 48, 101, 68, 107, 113, 77, 86, 90, 55, 78, 87, 120, 111, 78, 106, 73,
       120>>,
       <<136, 112, 7, 93, 189, 3, 75, 164, 171, 47, 70, 43, 165, 177, 80, 17, 220, 5, 254,
       159, 231, 110, 85, 68, 164, 221, 145, 161, 219, 188, 111, 185, 245, 36, 248, 207,
       253, 122, 114, 232, 200, 39, 83, 20, 5, 56, 232, 46, 41, 225, 135, 25, 155, 106,
       255, 118, 192, 94, 239, 70, 245, 180, 48, 43>>>>,
     <<<<48, 102, 48, 102, 48, 102, 48, 102, 48, 102, 48, 102, 48, 102, 48, 102, 48, 102,
       48, 102, 48, 102, 48, 102, 48, 102, 48, 102, 48, 102, 48, 102, 48, 102, 48, 102,
       48, 102, 48, 102, 48, 102, 48, 102, 48, 102, 48, 102, 48, 102, 48, 102, 48, 102,
       48, 102, 48, 102, 48, 102, 48, 102, 48, 102>>,
       <<77, 84, 65, 48, 101, 68, 107, 113, 77, 86, 90, 55, 78, 87, 120, 111, 78, 106, 77,
       120>>,
       <<184, 166, 30, 199, 123, 69, 199, 249, 207, 219, 158, 183, 111, 194, 157, 68, 165,
       172, 52, 110, 224, 125, 115, 36, 125, 25, 182, 189, 206, 80, 116, 11, 224, 214, 63,
       17, 168, 58, 154, 4, 5, 131, 85, 141, 25, 218, 62, 42, 33, 153, 201, 181, 82, 43,
       53, 34, 102, 217, 20, 119, 174, 251, 133, 242>>>>,
     <<<<48, 102, 48, 102, 48, 102, 48, 102, 48, 102, 48, 102, 48, 102, 48, 102, 48, 102,
       48, 102, 48, 102, 48, 102, 48, 102, 48, 102, 48, 102, 48, 102, 48, 102, 48, 102,
       48, 102, 48, 102, 48, 102, 48, 102, 48, 102, 48, 102, 48, 102, 48, 102, 48, 102,
       48, 102, 48, 102, 48, 102, 48, 102, 48, 102>>,
       <<77, 84, 65, 48, 101, 68, 107, 113, 77, 86, 90, 55, 78, 87, 120, 111, 78, 106, 81,
       120>>,
       <<3, 5, 174, 40, 153, 105, 217, 153, 87, 230, 115, 95, 18, 158, 230, 134, 130, 226,
       76, 160, 8, 62, 70, 193, 230, 223, 64, 56, 151, 92, 135, 210, 232, 172, 162, 234,
       138, 227, 19, 82, 209, 183, 137, 210, 142, 25, 210, 12, 12, 74, 104, 15, 77, 42,
       89, 84, 219, 140, 146, 31, 170, 194, 199, 26>>>>,
     <<<<48, 102, 48, 102, 48, 102, 48, 102, 48, 102, 48, 102, 48, 102, 48, 102, 48, 102,
       48, 102, 48, 102, 48, 102, 48, 102, 48, 102, 48, 102, 48, 102, 48, 102, 48, 102,
       48, 102, 48, 102, 48, 102, 48, 102, 48, 102, 48, 102, 48, 102, 48, 102, 48, 102,
       48, 102, 48, 102, 48, 102, 48, 102, 48, 102>>,
       <<77, 84, 65, 48, 101, 68, 107, 113, 77, 86, 90, 55, 78, 87, 120, 111, 78, 106, 81,
       120, 77, 68, 65>>,
       <<141, 32, 205, 203, 209, 38, 159, 147, 0, 254, 163, 67, 162, 147, 59, 39, 119, 67,
       222, 70, 230, 119, 214, 90, 236, 207, 179, 140, 41, 230, 65, 15, 136, 149, 149, 93,
       214, 154, 239, 45, 241, 168, 110, 252, 174, 236, 223, 193, 16, 32, 13, 120, 206,
       183, 236, 132, 253, 92, 39, 185, 8, 110, 176, 144>>>>,
     <<<<48, 102, 48, 102, 48, 102, 48, 102, 48, 102, 48, 102, 48, 102, 48, 102, 48, 102,
       48, 102, 48, 102, 48, 102, 48, 102, 48, 102, 48, 102, 48, 102, 48, 102, 48, 102,
       48, 102, 48, 102, 48, 102, 48, 102, 48, 102, 48, 102, 48, 102, 48, 102, 48, 102,
       48, 102, 48, 102, 48, 102, 48, 102, 48, 102>>,
       <<77, 84, 65, 48, 101, 68, 107, 113, 77, 86, 90, 55, 78, 87, 120, 111, 78, 122,
       69>>,
       <<130, 208, 86, 245, 19, 40, 181, 197, 166, 143, 59, 231, 242, 179, 11, 222, 22,
       89, 74, 205, 208, 41, 65, 82, 32, 15, 190, 40, 137, 41, 169, 165, 51, 172, 41, 113,
       41, 174, 90, 51, 26, 128, 75, 123, 232, 49, 144, 186, 227, 94, 4, 188, 48, 141,
       124, 160, 137, 8, 172, 73, 138, 147, 159, 255>>>>,
     <<<<48, 102, 48, 102, 48, 102, 48, 102, 48, 102, 48, 102, 48, 102, 48, 102, 48, 102,
       48, 102, 48, 102, 48, 102, 48, 102, 48, 102, 48, 102, 48, 102, 48, 102, 48, 102,
       48, 102, 48, 102, 48, 102, 48, 102, 48, 102, 48, 102, 48, 102, 48, 102, 48, 102,
       48, 102, 48, 102, 48, 102, 48, 102, 48, 102>>,
       <<77, 84, 65, 48, 101, 68, 107, 113, 77, 86, 90, 55, 78, 87, 120, 111, 79, 68, 69>>,
       <<248, 50, 241, 66, 24, 244, 206, 42, 254, 212, 134, 201, 41, 165, 227, 157, 92,
       234, 171, 143, 8, 196, 242, 160, 143, 23, 103, 190, 104, 132, 217, 210, 50, 100,
       117, 148, 229, 126, 202, 69, 212, 136, 206, 156, 66, 112, 254, 236, 120, 87, 230,
       17, 84, 79, 243, 116, 109, 199, 154, 120, 199, 193, 213, 238>>>>,
     <<<<48, 102, 48, 102, 48, 102, 48, 102, 48, 102, 48, 102, 48, 102, 48, 102, 48, 102,
       48, 102, 48, 102, 48, 102, 48, 102, 48, 102, 48, 102, 48, 102, 48, 102, 48, 102,
       48, 102, 48, 102, 48, 102, 48, 102, 48, 102, 48, 102, 48, 102, 48, 102, 48, 102,
       48, 102, 48, 102, 48, 102, 48, 102, 48, 102>>,
       <<77, 84, 65, 48, 101, 68, 107, 113, 77, 86, 90, 55, 78, 87, 120, 111, 79, 84, 69>>,
       <<25, 107, 214, 57, 192, 89, 234, 162, 247, 118, 255, 160, 169, 166, 59, 139, 56,
       209, 18, 225, 15, 247, 57, 178, 49, 15, 24, 82, 189, 171, 97, 70, 230, 248, 166,
       169, 60, 100, 111, 78, 172, 244, 173, 142, 93, 97, 51, 209, 190, 155, 188, 190,
       205, 88, 67, 14, 127, 152, 75, 114, 181, 40, 57, 150>>>>,
     <<<<48, 102, 56, 97, 55, 98, 102, 54, 49, 57, 50, 55, 57, 49, 50, 101, 49, 49, 99,
       55, 54, 53, 52, 49, 52, 99, 48, 55, 52, 48, 54, 57, 56, 48, 98, 97, 100, 51, 97,
       48, 101, 99, 50, 51, 48, 52, 57, 53, 97, 53, 51, 52, 55, 51, 56, 50, 56, 48, 52,
       99, 50, 98, 100, 53>>,
       <<77, 106, 66, 70, 101, 71, 70, 116, 99, 71, 120, 108, 73, 70, 78, 108, 99, 110,
       90, 112, 89, 50, 85, 103, 84, 109, 70, 116, 90, 84, 73, 119, 77, 81>>,
       <<36, 141, 14, 76, 205, 124, 177, 1, 31, 155, 106, 105, 138, 105, 149, 78, 25, 79,
       32, 224, 171, 236, 44, 155, 244, 134, 211, 214, 214, 167, 174, 61, 57, 246, 101,
       174, 249, 2, 216, 42, 235, 227, 33, 179, 137, 174, 249, 196, 156, 247, 222, 67,
       183, 133, 204, 130, 32, 169, 125, 75, 132, 41, 254, 6>>>>,
     <<<<50, 53, 51, 99, 99, 55, 99, 49, 99, 48, 100, 55, 50, 102, 97, 48, 98, 102, 54,
       57, 48, 56, 100, 98, 54, 98, 102, 102, 57, 98, 52, 98, 56, 102, 49, 50, 54, 101,
       102, 100, 52, 56, 101, 54, 49, 55, 56, 55, 50, 52, 102, 97, 101, 54, 98, 50, 51,
       53, 99, 56, 98, 50, 97, 53>>,
       <<77, 68, 69, 119, 77, 81>>,
       <<70, 49, 9, 232, 17, 19, 177, 173, 5, 21, 8, 230, 117, 3, 228, 26, 16, 72, 76,
       100, 158, 204, 62, 147, 231, 8, 80, 3, 129, 217, 192, 113, 209, 250, 13, 42, 157,
       94, 194, 211, 137, 209, 37, 47, 48, 140, 211, 18, 48, 113, 243, 166, 213, 125, 81,
       242, 72, 117, 188, 41, 207, 168, 87, 175>>>>,
     <<<<50, 53, 51, 99, 99, 55, 99, 49, 99, 48, 100, 55, 50, 102, 97, 48, 98, 102, 54,
       57, 48, 56, 100, 98, 54, 98, 102, 102, 57, 98, 52, 98, 56, 102, 49, 50, 54, 101,
       102, 100, 52, 56, 101, 54, 49, 55, 56, 55, 50, 52, 102, 97, 101, 54, 98, 50, 51,
       53, 99, 56, 98, 50, 97, 53>>,
       <<77, 68, 69, 119, 77, 84, 65, 119>>,
       <<211, 82, 227, 230, 121, 230, 45, 62, 118, 181, 95, 95, 164, 1, 114, 125, 224,
       104, 69, 171, 233, 141, 169, 194, 133, 92, 107, 66, 100, 229, 249, 169, 142, 103,
       48, 126, 125, 173, 133, 141, 173, 43, 143, 192, 134, 125, 108, 133, 149, 164, 47,
       10, 64, 213, 147, 131, 22, 132, 199, 69, 98, 31, 74, 231>>>>,
     <<<<50, 53, 51, 99, 99, 55, 99, 49, 99, 48, 100, 55, 50, 102, 97, 48, 98, 102, 54,
       57, 48, 56, 100, 98, 54, 98, 102, 102, 57, 98, 52, 98, 56, 102, 49, 50, 54, 101,
       102, 100, 52, 56, 101, 54, 49, 55, 56, 55, 50, 52, 102, 97, 101, 54, 98, 50, 51,
       53, 99, 56, 98, 50, 97, 53>>,
       <<77, 68, 89, 48, 77, 81>>,
       <<127, 136, 227, 45, 91, 6, 134, 69, 227, 129, 157, 141, 225, 13, 30, 229, 200, 27,
       49, 21, 128, 233, 193, 239, 93, 224, 226, 82, 44, 190, 139, 9, 107, 197, 90, 127,
       131, 196, 93, 58, 176, 239, 248, 111, 219, 52, 146, 139, 202, 196, 238, 252, 91,
       250, 155, 198, 112, 170, 7, 39, 239, 155, 244, 188>>>>,
     <<<<50, 53, 51, 99, 99, 55, 99, 49, 99, 48, 100, 55, 50, 102, 97, 48, 98, 102, 54,
       57, 48, 56, 100, 98, 54, 98, 102, 102, 57, 98, 52, 98, 56, 102, 49, 50, 54, 101,
       102, 100, 52, 56, 101, 54, 49, 55, 56, 55, 50, 52, 102, 97, 101, 54, 98, 50, 51,
       53, 99, 56, 98, 50, 97, 53>>,
       <<77, 68, 89, 48, 77, 84, 65, 119>>,
       <<178, 190, 166, 65, 71, 28, 249, 77, 78, 94, 246, 69, 231, 222, 63, 213, 234, 54,
       209, 231, 18, 171, 199, 77, 228, 204, 139, 109, 29, 88, 18, 25, 160, 177, 101, 114,
       246, 239, 55, 122, 155, 40, 70, 188, 27, 222, 173, 159, 46, 3, 32, 203, 124, 56,
       102, 36, 72, 141, 217, 14, 203, 239, 228, 161>>>>,
     <<<<50, 53, 51, 99, 99, 55, 99, 49, 99, 48, 100, 55, 50, 102, 97, 48, 98, 102, 54,
       57, 48, 56, 100, 98, 54, 98, 102, 102, 57, 98, 52, 98, 56, 102, 49, 50, 54, 101,
       102, 100, 52, 56, 101, 54, 49, 55, 56, 55, 50, 52, 102, 97, 101, 54, 98, 50, 51,
       53, 99, 56, 98, 50, 97, 53>>,
       <<77, 84, 65, 48, 101, 68, 107, 113, 77, 86, 90, 55, 78, 87, 120, 111, 77, 84, 65,
       120>>,
       <<139, 243, 18, 18, 70, 119, 233, 147, 56, 174, 191, 176, 92, 125, 236, 108, 244,
       213, 52, 105, 211, 20, 183, 205, 152, 161, 231, 254, 122, 215, 114, 176, 70, 227,
       52, 238, 74, 130, 117, 33, 79, 40, 37, 16, 182, 44, 218, 29, 75, 51, 237, 160, 63,
       13, 203, 104, 228, 127, 131, 21, 32, 60, 42, 192>>>>,
     <<<<50, 53, 51, 99, 99, 55, 99, 49, 99, 48, 100, 55, 50, 102, 97, 48, 98, 102, 54,
       57, 48, 56, 100, 98, 54, 98, 102, 102, 57, 98, 52, 98, 56, 102, 49, 50, 54, 101,
       102, 100, 52, 56, 101, 54, 49, 55, 56, 55, 50, 52, 102, 97, 101, 54, 98, 50, 51,
       53, 99, 56, 98, 50, 97, 53>>,
       <<77, 84, 65, 48, 101, 68, 107, 113, 77, 86, 90, 55, 78, 87, 120, 111, 77, 84, 65,
       120, 77, 68, 65>>,
       <<119, 2, 12, 187, 96, 154, 198, 62, 221, 81, 34, 49, 224, 251, 56, 54, 131, 208,
       68, 109, 69, 177, 119, 216, 167, 140, 151, 243, 254, 240, 232, 99, 130, 87, 113,
       79, 181, 13, 106, 230, 51, 142, 116, 3, 183, 209, 212, 236, 92, 147, 192, 190, 57,
       17, 253, 250, 93, 136, 237, 71, 140, 93, 15, 187>>>>,
     <<<<50, 53, 51, 99, 99, 55, 99, 49, 99, 48, 100, 55, 50, 102, 97, 48, 98, 102, 54,
       57, 48, 56, 100, 98, 54, 98, 102, 102, 57, 98, 52, 98, 56, 102, 49, 50, 54, 101,
       102, 100, 52, 56, 101, 54, 49, 55, 56, 55, 50, 52, 102, 97, 101, 54, 98, 50, 51,
       53, 99, 56, 98, 50, 97, 53>>,
       <<77, 84, 65, 48, 101, 68, 107, 113, 77, 86, 90, 55, 78, 87, 120, 111, 78, 106, 81,
       120>>,
       <<17, 254, 254, 181, 40, 213, 233, 186, 246, 26, 80, 189, 174, 178, 169, 221, 68,
       166, 39, 183, 78, 114, 35, 150, 237, 242, 203, 36, 250, 163, 169, 1, 88, 152, 71,
       117, 83, 129, 152, 24, 228, 78, 182, 58, 66, 218, 28, 223, 174, 33, 166, 7, 110,
       109, 225, 131, 17, 85, 24, 202, 72, 31, 176, 23>>>>,
     <<<<50, 53, 51, 99, 99, 55, 99, 49, 99, 48, 100, 55, 50, 102, 97, 48, 98, 102, 54,
       57, 48, 56, 100, 98, 54, 98, 102, 102, 57, 98, 52, 98, 56, 102, 49, 50, 54, 101,
       102, 100, 52, 56, 101, 54, 49, 55, 56, 55, 50, 52, 102, 97, 101, 54, 98, 50, 51,
       53, 99, 56, 98, 50, 97, 53>>,
       <<77, 84, 65, 48, 101, 68, 107, 113, 77, 86, 90, 55, 78, 87, 120, 111, 78, 106, 81,
       120, 77, 68, 65>>,
       <<157, 87, 223, 170, 3, 228, 255, 215, 255, 85, 245, 149, 126, 121, 175, 85, 105,
       166, 216, 114, 52, 4, 119, 47, 153, 241, 119, 69, 28, 151, 177, 87, 28, 37, 99,
       145, 213, 131, 229, 217, 25, 224, 178, 134, 72, 59, 186, 22, 169, 134, 88, 223,
       228, 2, 19, 153, 227, 144, 91, 213, 132, 141, 119, 50>>>>,
     <<<<50, 99, 57, 98, 54, 51, 101, 97, 57, 97, 51, 55, 55, 97, 101, 52, 97, 50, 101,
       101, 57, 49, 48, 101, 101, 102, 49, 56, 99, 49, 52, 52, 56, 57, 101, 48, 101, 57,
       101, 49, 57, 55, 99, 51, 50, 102, 56, 57, 54, 56, 56, 98, 52, 101, 49, 54, 57, 52,
       54, 49, 97, 48, 100, 98>>,
       <<77, 106, 66, 70, 101, 71, 70, 116, 99, 71, 120, 108, 73, 70, 78, 108, 99, 110,
       90, 112, 89, 50, 85, 103, 84, 109, 70, 116, 90, 84, 73, 119, 77, 81>>,
       <<169, 169, 187, 27, 82, 17, 45, 25, 117, 178, 156, 129, 144, 123, 194, 16, 225,
       165, 4, 217, 120, 63, 149, 150, 172, 19, 192, 202, 146, 42, 96, 235, 242, 76, 161,
       250, 143, 190, 20, 135, 212, 12, 7, 105, 192, 17, 194, 198, 233, 213, 182, 118, 68,
       137, 124, 84, 154, 146, 214, 199, 122, 114, 21, 33>>>>,
     <<<<51, 100, 52, 99, 98, 49, 51, 48, 50, 51, 48, 52, 56, 99, 100, 102, 50, 98, 57,
       50, 54, 100, 55, 102, 56, 99, 101, 51, 53, 50, 101, 48, 56, 101, 50, 48, 56, 101,
       51, 102, 101, 57, 51, 54, 53, 48, 51, 54, 98, 56, 97, 100, 53, 100, 101, 48, 101,
       98, 55, 98, 99, 98, 98, 56>>,
       <<77, 106, 65, 114, 89, 106, 104, 83, 102, 106, 57, 110, 86, 106, 74, 56, 75, 122,
       66, 110, 100, 70, 69, 56, 85, 85, 86, 50, 80, 68, 89, 48, 77, 84, 65, 119>>,
       <<202, 62, 117, 38, 144, 248, 199, 211, 138, 238, 105, 133, 69, 139, 100, 227, 194,
       138, 231, 173, 138, 254, 83, 226, 128, 117, 218, 173, 162, 11, 35, 80, 36, 155, 63,
       65, 85, 7, 242, 244, 57, 72, 185, 103, 31, 115, 188, 49, 114, 217, 16, 84, 166, 6,
       33, 227, 59, 240, 231, 174, 120, 108, 208, 238>>>>,
     <<<<52, 52, 55, 49, 57, 52, 100, 52, 57, 50, 102, 56, 56, 98, 56, 100, 100, 52, 53,
       57, 57, 57, 56, 101, 100, 99, 98, 100, 50, 53, 54, 101, 48, 102, 56, 54, 55, 102,
       102, 98, 100, 97, 48, 100, 51, 102, 53, 97, 100, 101, 97, 102, 98, 55, 102, 57, 54,
       50, 55, 101, 100, 99, 49, 100>>,
       <<77, 68, 69, 119, 77, 81>>,
       <<58, 86, 59, 111, 1, 132, 43, 230, 108, 3, 84, 208, 193, 5, 32, 30, 181, 168, 210,
       122, 40, 185, 240, 226, 4, 82, 211, 99, 222, 47, 178, 13, 230, 59, 253, 235, 143,
       180, 87, 247, 44, 1, 91, 79, 162, 253, 36, 139, 231, 125, 124, 90, 251, 77, 67,
       186, 120, 92, 146, 212, 245, 46, 14, 138>>>>,
     <<<<52, 52, 55, 49, 57, 52, 100, 52, 57, 50, 102, 56, 56, 98, 56, 100, 100, 52, 53,
       57, 57, 57, 56, 101, 100, 99, 98, 100, 50, 53, 54, 101, 48, 102, 56, 54, 55, 102,
       102, 98, 100, 97, 48, 100, 51, 102, 53, 97, 100, 101, 97, 102, 98, 55, 102, 57, 54,
       50, 55, 101, 100, 99, 49, 100>>,
       <<77, 68, 69, 119, 77, 84, 65, 119>>,
       <<217, 26, 202, 250, 175, 253, 96, 24, 46, 246, 248, 75, 24, 14, 193, 218, 232, 58,
       231, 137, 114, 97, 227, 120, 197, 92, 176, 160, 0, 218, 209, 82, 27, 128, 195, 134,
       156, 137, 222, 54, 166, 29, 3, 187, 140, 152, 3, 207, 8, 222, 119, 37, 136, 128, 1,
       137, 202, 125, 150, 94, 189, 137, 88, 156>>>>,
     <<<<52, 52, 55, 49, 57, 52, 100, 52, 57, 50, 102, 56, 56, 98, 56, 100, 100, 52, 53,
       57, 57, 57, 56, 101, 100, 99, 98, 100, 50, 53, 54, 101, 48, 102, 56, 54, 55, 102,
       102, 98, 100, 97, 48, 100, 51, 102, 53, 97, 100, 101, 97, 102, 98, 55, 102, 57, 54,
       50, 55, 101, 100, 99, 49, 100>>,
       <<77, 68, 89, 48, 77, 81>>,
       <<64, 23, 206, 142, 203, 228, 134, 170, 207, 44, 239, 5, 60, 236, 6, 0, 120, 65, 9,
       186, 103, 56, 89, 137, 243, 226, 148, 184, 75, 73, 64, 182, 221, 5, 31, 178, 25,
       29, 102, 73, 99, 135, 228, 213, 24, 188, 73, 214, 42, 151, 108, 177, 241, 15, 204,
       146, 202, 222, 175, 45, 135, 121, 229, 107>>>>,
     <<<<52, 52, 55, 49, 57, 52, 100, 52, 57, 50, 102, 56, 56, 98, 56, 100, 100, 52, 53,
       57, 57, 57, 56, 101, 100, 99, 98, 100, 50, 53, 54, 101, 48, 102, 56, 54, 55, 102,
       102, 98, 100, 97, 48, 100, 51, 102, 53, 97, 100, 101, 97, 102, 98, 55, 102, 57, 54,
       50, 55, 101, 100, 99, 49, 100>>,
       <<77, 68, 89, 48, 77, 84, 65, 119>>,
       <<156, 249, 74, 36, 124, 103, 255, 119, 218, 190, 18, 173, 58, 45, 176, 146, 166,
       63, 163, 132, 148, 170, 172, 60, 182, 105, 7, 58, 4, 72, 34, 176, 158, 146, 217,
       44, 54, 32, 225, 154, 253, 91, 154, 19, 118, 252, 51, 84, 121, 9, 243, 21, 69, 134,
       62, 237, 32, 176, 16, 26, 166, 78, 116, 240>>>>,
     <<<<52, 52, 55, 49, 57, 52, 100, 52, 57, 50, 102, 56, 56, 98, 56, 100, 100, 52, 53,
       57, 57, 57, 56, 101, 100, 99, 98, 100, 50, 53, 54, 101, 48, 102, 56, 54, 55, 102,
       102, 98, 100, 97, 48, 100, 51, 102, 53, 97, 100, 101, 97, 102, 98, 55, 102, 57, 54,
       50, 55, 101, 100, 99, 49, 100>>,
       <<77, 84, 65, 48, 101, 68, 107, 113, 77, 86, 90, 55, 78, 87, 120, 111, 77, 84, 65,
       120>>,
       <<163, 201, 37, 229, 10, 38, 168, 247, 196, 204, 26, 88, 79, 22, 64, 105, 42, 7,
       28, 92, 185, 35, 100, 126, 206, 191, 56, 237, 191, 126, 124, 145, 208, 135, 170,
       189, 102, 88, 205, 171, 102, 246, 40, 233, 249, 154, 143, 158, 54, 163, 0, 182,
       181, 159, 232, 109, 211, 151, 32, 103, 137, 218, 164, 206>>>>,
     <<<<52, 52, 55, 49, 57, 52, 100, 52, 57, 50, 102, 56, 56, 98, 56, 100, 100, 52, 53,
       57, 57, 57, 56, 101, 100, 99, 98, 100, 50, 53, 54, 101, 48, 102, 56, 54, 55, 102,
       102, 98, 100, 97, 48, 100, 51, 102, 53, 97, 100, 101, 97, 102, 98, 55, 102, 57, 54,
       50, 55, 101, 100, 99, 49, 100>>,
       <<77, 84, 65, 48, 101, 68, 107, 113, 77, 86, 90, 55, 78, 87, 120, 111, 77, 84, 65,
       120, 77, 68, 65>>,
       <<121, 143, 84, 55, 13, 100, 190, 185, 52, 206, 85, 211, 181, 249, 42, 161, 130,
       93, 109, 123, 146, 104, 72, 77, 194, 91, 111, 175, 218, 62, 22, 86, 216, 188, 230,
       143, 66, 53, 88, 221, 204, 138, 38, 204, 53, 188, 74, 101, 27, 207, 106, 170, 223,
       2, 184, 188, 145, 188, 241, 79, 122, 196, 69, 169>>>>,
     <<<<52, 52, 55, 49, 57, 52, 100, 52, 57, 50, 102, 56, 56, 98, 56, 100, 100, 52, 53,
       57, 57, 57, 56, 101, 100, 99, 98, 100, 50, 53, 54, 101, 48, 102, 56, 54, 55, 102,
       102, 98, 100, 97, 48, 100, 51, 102, 53, 97, 100, 101, 97, 102, 98, 55, 102, 57, 54,
       50, 55, 101, 100, 99, 49, 100>>,
       <<77, 84, 65, 48, 101, 68, 107, 113, 77, 86, 90, 55, 78, 87, 120, 111, 78, 106, 81,
       120>>,
       <<25, 166, 13, 105, 28, 76, 210, 157, 137, 218, 155, 156, 50, 189, 187, 163, 66,
       76, 113, 147, 129, 125, 112, 113, 33, 64, 148, 4, 150, 69, 251, 224, 21, 216, 148,
       90, 15, 165, 170, 34, 153, 211, 68, 244, 73, 136, 49, 38, 235, 183, 227, 79, 141,
       99, 145, 95, 94, 97, 218, 139, 189, 130, 31, 241>>>>,
     <<<<52, 52, 55, 49, 57, 52, 100, 52, 57, 50, 102, 56, 56, 98, 56, 100, 100, 52, 53,
       57, 57, 57, 56, 101, 100, 99, 98, 100, 50, 53, 54, 101, 48, 102, 56, 54, 55, 102,
       102, 98, 100, 97, 48, 100, 51, 102, 53, 97, 100, 101, 97, 102, 98, 55, 102, 57, 54,
       50, 55, 101, 100, 99, 49, 100>>,
       <<77, 84, 65, 48, 101, 68, 107, 113, 77, 86, 90, 55, 78, 87, 120, 111, 78, 106, 81,
       120, 77, 68, 65>>,
       <<58, 240, 82, 123, 59, 141, 205, 184, 209, 180, 90, 31, 161, 53, 130, 185, 240,
       51, 199, 234, 143, 49, 164, 103, 2, 18, 14, 32, 20, 20, 123, 253, 42, 112, 32, 22,
       21, 80, 48, 206, 9, 207, 239, 219, 73, 142, 205, 41, 84, 247, 106, 86, 99, 163,
       106, 219, 141, 105, 3, 0, 73, 70, 80, 115>>>>,
     <<<<52, 57, 53, 99, 50, 51, 51, 102, 51, 56, 100, 55, 101, 52, 56, 53, 55, 57, 49,
       57, 53, 52, 50, 53, 100, 56, 53, 53, 54, 55, 55, 57, 51, 55, 100, 53, 49, 102, 52,
       54, 50, 52, 101, 101, 48, 53, 97, 53, 53, 97, 54, 100, 50, 53, 50, 48, 49, 56, 54,
       49, 51, 57, 99, 54>>,
       <<77, 68, 69, 119, 77, 81>>,
       <<19, 86, 126, 210, 201, 46, 206, 29, 58, 33, 114, 145, 128, 236, 9, 179, 159, 255,
       102, 161, 219, 152, 201, 197, 140, 231, 252, 84, 213, 109, 107, 169, 35, 31, 178,
       8, 180, 221, 32, 196, 7, 123, 241, 255, 132, 117, 173, 177, 113, 176, 136, 222, 33,
       63, 33, 165, 212, 72, 187, 203, 98, 76, 98, 81>>>>,
     <<<<52, 57, 53, 99, 50, 51, 51, 102, 51, 56, 100, 55, 101, 52, 56, 53, 55, 57, 49,
       57, 53, 52, 50, 53, 100, 56, 53, 53, 54, 55, 55, 57, 51, 55, 100, 53, 49, 102, 52,
       54, 50, 52, 101, 101, 48, 53, 97, 53, 53, 97, 54, 100, 50, 53, 50, 48, 49, 56, 54,
       49, 51, 57, 99, 54>>,
       <<77, 68, 69, 119, 77, 84, 65, 119>>,
       <<55, 194, 247, 187, 192, 145, 224, 248, 107, 223, 81, 129, 143, 136, 198, 246,
       255, 97, 138, 226, 104, 215, 31, 145, 79, 2, 83, 3, 22, 162, 155, 162, 103, 247,
       130, 115, 15, 140, 91, 20, 216, 83, 48, 52, 71, 171, 100, 62, 103, 134, 140, 1,
       246, 48, 250, 22, 224, 58, 42, 130, 133, 204, 70, 237>>>>,
     <<<<52, 57, 53, 99, 50, 51, 51, 102, 51, 56, 100, 55, 101, 52, 56, 53, 55, 57, 49,
       57, 53, 52, 50, 53, 100, 56, 53, 53, 54, 55, 55, 57, 51, 55, 100, 53, 49, 102, 52,
       54, 50, 52, 101, 101, 48, 53, 97, 53, 53, 97, 54, 100, 50, 53, 50, 48, 49, 56, 54,
       49, 51, 57, 99, 54>>,
       <<77, 68, 89, 48, 77, 81>>,
       <<107, 187, 64, 155, 213, 182, 4, 45, 216, 21, 5, 168, 64, 194, 203, 8, 50, 73,
       147, 71, 157, 185, 83, 192, 57, 98, 178, 64, 32, 245, 197, 52, 163, 176, 45, 165,
       9, 240, 242, 215, 227, 97, 107, 119, 120, 102, 74, 108, 184, 230, 75, 139, 154,
       135, 167, 45, 66, 96, 137, 90, 14, 211, 126, 58>>>>,
     <<<<52, 57, 53, 99, 50, 51, 51, 102, 51, 56, 100, 55, 101, 52, 56, 53, 55, 57, 49,
       57, 53, 52, 50, 53, 100, 56, 53, 53, 54, 55, 55, 57, 51, 55, 100, 53, 49, 102, 52,
       54, 50, 52, 101, 101, 48, 53, 97, 53, 53, 97, 54, 100, 50, 53, 50, 48, 49, 56, 54,
       49, 51, 57, 99, 54>>,
       <<77, 68, 89, 48, 77, 84, 65, 119>>,
       <<113, 223, 235, 167, 92, 135, 163, 227, 168, 168, 88, 192, 23, 223, 87, 78, 132,
       253, 9, 119, 244, 184, 202, 160, 242, 12, 249, 50, 44, 36, 65, 50, 225, 173, 88,
       23, 7, 144, 176, 121, 252, 14, 174, 104, 216, 10, 14, 189, 23, 206, 168, 52, 126,
       219, 221, 101, 84, 204, 61, 142, 16, 132, 89, 14>>>>,
     <<<<52, 57, 53, 99, 50, 51, 51, 102, 51, 56, 100, 55, 101, 52, 56, 53, 55, 57, 49,
       57, 53, 52, 50, 53, 100, 56, 53, 53, 54, 55, 55, 57, 51, 55, 100, 53, 49, 102, 52,
       54, 50, 52, 101, 101, 48, 53, 97, 53, 53, 97, 54, 100, 50, 53, 50, 48, 49, 56, 54,
       49, 51, 57, 99, 54>>,
       <<77, 84, 65, 48, 101, 68, 107, 113, 77, 86, 90, 55, 78, 87, 120, 111, 77, 84, 65,
       120>>,
       <<218, 12, 45, 137, 63, 75, 85, 147, 205, 177, 243, 222, 71, 142, 8, 205, 77, 117,
       41, 1, 83, 75, 66, 138, 185, 204, 202, 2, 113, 147, 206, 143, 237, 14, 199, 126,
       190, 1, 135, 70, 155, 125, 26, 86, 185, 103, 194, 91, 6, 203, 116, 126, 230, 218,
       42, 209, 239, 218, 10, 75, 134, 152, 71, 140>>>>,
     <<<<52, 57, 53, 99, 50, 51, 51, 102, 51, 56, 100, 55, 101, 52, 56, 53, 55, 57, 49,
       57, 53, 52, 50, 53, 100, 56, 53, 53, 54, 55, 55, 57, 51, 55, 100, 53, 49, 102, 52,
       54, 50, 52, 101, 101, 48, 53, 97, 53, 53, 97, 54, 100, 50, 53, 50, 48, 49, 56, 54,
       49, 51, 57, 99, 54>>,
       <<77, 84, 65, 48, 101, 68, 107, 113, 77, 86, 90, 55, 78, 87, 120, 111, 77, 84, 65,
       120, 77, 68, 65>>,
       <<58, 13, 6, 38, 218, 206, 159, 152, 235, 28, 166, 120, 194, 140, 20, 199, 13, 52,
       11, 248, 11, 122, 134, 88, 104, 180, 60, 36, 166, 223, 212, 66, 182, 146, 49, 111,
       185, 142, 4, 124, 205, 181, 36, 201, 62, 39, 252, 50, 226, 30, 103, 255, 36, 62,
       28, 164, 236, 220, 234, 162, 114, 59, 166, 19>>>>,
     <<<<52, 57, 53, 99, 50, 51, 51, 102, 51, 56, 100, 55, 101, 52, 56, 53, 55, 57, 49,
       57, 53, 52, 50, 53, 100, 56, 53, 53, 54, 55, 55, 57, 51, 55, 100, 53, 49, 102, 52,
       54, 50, 52, 101, 101, 48, 53, 97, 53, 53, 97, 54, 100, 50, 53, 50, 48, 49, 56, 54,
       49, 51, 57, 99, 54>>,
       <<77, 84, 65, 48, 101, 68, 107, 113, 77, 86, 90, 55, 78, 87, 120, 111, 78, 106, 81,
       120>>,
       <<84, 221, 134, 183, 186, 23, 124, 115, 34, 77, 74, 29, 168, 204, 125, 228, 158,
       210, 37, 252, 214, 194, 75, 21, 202, 232, 164, 253, 232, 69, 245, 123, 32, 244, 75,
       109, 185, 199, 124, 251, 149, 23, 206, 76, 151, 110, 162, 199, 58, 86, 161, 124,
       148, 179, 86, 59, 197, 220, 144, 155, 173, 31, 200, 131>>>>,
     <<<<52, 57, 53, 99, 50, 51, 51, 102, 51, 56, 100, 55, 101, 52, 56, 53, 55, 57, 49,
       57, 53, 52, 50, 53, 100, 56, 53, 53, 54, 55, 55, 57, 51, 55, 100, 53, 49, 102, 52,
       54, 50, 52, 101, 101, 48, 53, 97, 53, 53, 97, 54, 100, 50, 53, 50, 48, 49, 56, 54,
       49, 51, 57, 99, 54>>,
       <<77, 84, 65, 48, 101, 68, 107, 113, 77, 86, 90, 55, 78, 87, 120, 111, 78, 106, 81,
       120, 77, 68, 65>>,
       <<155, 97, 100, 98, 192, 154, 11, 41, 47, 6, 89, 73, 10, 95, 86, 59, 162, 23, 20,
       249, 197, 230, 54, 252, 8, 94, 118, 160, 103, 17, 55, 228, 250, 123, 218, 166, 41,
       81, 8, 47, 158, 71, 113, 63, 173, 246, 211, 49, 95, 192, 160, 132, 203, 168, 166,
       255, 171, 71, 190, 93, 146, 99, 217, 162>>>>,
     <<<<52, 100, 102, 52, 49, 56, 52, 57, 49, 102, 53, 50, 99, 100, 100, 56, 49, 101,
       101, 99, 52, 57, 49, 55, 50, 48, 99, 51, 99, 57, 51, 55, 97, 57, 101, 101, 56, 102,
       54, 50, 100, 48, 53, 97, 55, 52, 48, 53, 54, 100, 54, 50, 51, 97, 49, 54, 57, 54,
       101, 53, 53, 53, 54, 49>>,
       <<77, 106, 66, 70, 101, 71, 70, 116, 99, 71, 120, 108, 73, 70, 78, 108, 99, 110,
       90, 112, 89, 50, 85, 103, 84, 109, 70, 116, 90, 84, 73, 119, 77, 81>>,
       <<58, 77, 170, 25, 222, 133, 29, 69, 128, 128, 24, 130, 87, 163, 37, 77, 157, 146,
       65, 36, 199, 178, 70, 225, 253, 210, 12, 52, 219, 7, 37, 180, 14, 22, 24, 130, 194,
       151, 124, 23, 166, 21, 243, 104, 227, 29, 72, 69, 81, 33, 210, 236, 173, 8, 71,
       233, 78, 232, 87, 172, 152, 150, 127, 24>>>>,
     <<<<52, 101, 97, 102, 51, 55, 57, 99, 51, 57, 57, 56, 54, 54, 97, 49, 53, 53, 56, 51,
       56, 53, 50, 50, 48, 48, 100, 97, 49, 100, 57, 49, 101, 99, 54, 98, 98, 55, 102,
       100, 56, 56, 53, 50, 49, 56, 57, 50, 54, 98, 97, 100, 53, 101, 52, 102, 97, 102,
       98, 56, 97, 54, 57, 50>>,
       <<77, 106, 65, 114, 89, 106, 104, 83, 102, 106, 57, 110, 86, 106, 74, 56, 75, 122,
       66, 110, 100, 70, 69, 56, 85, 85, 86, 50, 80, 68, 89, 48, 77, 84, 65, 119>>,
       <<156, 128, 106, 71, 120, 126, 22, 103, 162, 81, 29, 103, 83, 234, 148, 3, 245,
       238, 45, 116, 43, 104, 169, 23, 92, 144, 157, 66, 179, 225, 142, 207, 112, 50, 245,
       100, 239, 71, 103, 109, 228, 163, 122, 234, 153, 54, 107, 240, 60, 80, 189, 103,
       118, 26, 5, 205, 253, 2, 167, 148, 12, 89, 215, 35>>>>,
     <<<<53, 48, 101, 100, 101, 99, 57, 101, 52, 102, 54, 97, 53, 51, 100, 56, 101, 51,
       53, 101, 101, 101, 52, 102, 55, 57, 50, 102, 51, 99, 49, 48, 102, 57, 102, 49, 102,
       99, 57, 99, 52, 49, 100, 97, 53, 50, 99, 55, 97, 50, 55, 97, 100, 57, 56, 48, 97,
       50, 102, 48, 98, 52, 57, 55>>,
       <<77, 68, 69, 119, 77, 81>>,
       <<212, 96, 180, 3, 225, 243, 34, 55, 116, 154, 165, 81, 100, 116, 75, 224, 43, 97,
       202, 43, 31, 111, 39, 52, 2, 141, 5, 253, 64, 218, 69, 20, 10, 229, 119, 142, 175,
       32, 111, 81, 164, 192, 20, 43, 30, 61, 33, 219, 209, 94, 95, 60, 196, 33, 50, 191,
       187, 87, 216, 133, 228, 236, 243, 215>>>>,
     <<<<53, 48, 101, 100, 101, 99, 57, 101, 52, 102, 54, 97, 53, 51, 100, 56, 101, 51,
       53, 101, 101, 101, 52, 102, 55, 57, 50, 102, 51, 99, 49, 48, 102, 57, 102, 49, 102,
       99, 57, 99, 52, 49, 100, 97, 53, 50, 99, 55, 97, 50, 55, 97, 100, 57, 56, 48, 97,
       50, 102, 48, 98, 52, 57, 55>>,
       <<77, 68, 69, 119, 77, 84, 65, 119>>,
       <<138, 146, 232, 173, 30, 60, 174, 234, 44, 125, 55, 19, 89, 55, 3, 232, 14, 71,
       88, 32, 108, 0, 196, 109, 156, 174, 91, 168, 142, 249, 125, 67, 91, 146, 192, 110,
       223, 52, 243, 178, 2, 159, 32, 246, 86, 145, 7, 68, 34, 6, 70, 53, 249, 169, 39,
       70, 84, 242, 35, 252, 77, 119, 138, 221>>>>,
     <<<<53, 48, 101, 100, 101, 99, 57, 101, 52, 102, 54, 97, 53, 51, 100, 56, 101, 51,
       53, 101, 101, 101, 52, 102, 55, 57, 50, 102, 51, 99, 49, 48, 102, 57, 102, 49, 102,
       99, 57, 99, 52, 49, 100, 97, 53, 50, 99, 55, 97, 50, 55, 97, 100, 57, 56, 48, 97,
       50, 102, 48, 98, 52, 57, 55>>,
       <<77, 68, 89, 48, 77, 81>>,
       <<84, 155, 68, 84, 247, 249, 42, 198, 93, 183, 209, 92, 33, 165, 233, 232, 9, 231,
       75, 214, 233, 221, 215, 36, 166, 83, 106, 229, 76, 47, 61, 78, 200, 216, 45, 61,
       226, 26, 206, 167, 201, 237, 83, 147, 77, 72, 255, 248, 173, 154, 73, 120, 230,
       242, 77, 221, 85, 24, 215, 132, 220, 52, 129, 52>>>>,
     <<<<53, 48, 101, 100, 101, 99, 57, 101, 52, 102, 54, 97, 53, 51, 100, 56, 101, 51,
       53, 101, 101, 101, 52, 102, 55, 57, 50, 102, 51, 99, 49, 48, 102, 57, 102, 49, 102,
       99, 57, 99, 52, 49, 100, 97, 53, 50, 99, 55, 97, 50, 55, 97, 100, 57, 56, 48, 97,
       50, 102, 48, 98, 52, 57, 55>>,
       <<77, 68, 89, 48, 77, 84, 65, 119>>,
       <<205, 133, 187, 51, 120, 97, 88, 40, 199, 248, 37, 159, 31, 44, 129, 46, 25, 12,
       55, 7, 112, 45, 119, 235, 227, 73, 109, 235, 81, 255, 229, 203, 75, 27, 5, 228,
       220, 249, 117, 193, 250, 36, 190, 228, 156, 34, 93, 149, 227, 174, 215, 120, 45,
       97, 87, 181, 107, 229, 129, 80, 123, 185, 35, 2>>>>,
     <<<<53, 48, 101, 100, 101, 99, 57, 101, 52, 102, 54, 97, 53, 51, 100, 56, 101, 51,
       53, 101, 101, 101, 52, 102, 55, 57, 50, 102, 51, 99, 49, 48, 102, 57, 102, 49, 102,
       99, 57, 99, 52, 49, 100, 97, 53, 50, 99, 55, 97, 50, 55, 97, 100, 57, 56, 48, 97,
       50, 102, 48, 98, 52, 57, 55>>,
       <<77, 84, 65, 48, 101, 68, 107, 113, 77, 86, 90, 55, 78, 87, 120, 111, 77, 84, 65,
       120>>,
       <<28, 104, 200, 58, 147, 8, 253, 184, 7, 20, 189, 133, 111, 159, 55, 156, 83, 84,
       249, 220, 144, 106, 181, 42, 128, 16, 10, 51, 174, 232, 129, 200, 129, 184, 62,
       245, 33, 132, 241, 174, 155, 30, 146, 77, 117, 91, 62, 77, 150, 157, 45, 48, 163,
       250, 170, 251, 107, 20, 98, 63, 174, 124, 62, 164>>>>,
     <<<<53, 48, 101, 100, 101, 99, 57, 101, 52, 102, 54, 97, 53, 51, 100, 56, 101, 51,
       53, 101, 101, 101, 52, 102, 55, 57, 50, 102, 51, 99, 49, 48, 102, 57, 102, 49, 102,
       99, 57, 99, 52, 49, 100, 97, 53, 50, 99, 55, 97, 50, 55, 97, 100, 57, 56, 48, 97,
       50, 102, 48, 98, 52, 57, 55>>,
       <<77, 84, 65, 48, 101, 68, 107, 113, 77, 86, 90, 55, 78, 87, 120, 111, 77, 84, 65,
       120, 77, 68, 65>>,
       <<208, 168, 229, 167, 53, 71, 167, 78, 23, 237, 2, 235, 243, 82, 219, 169, 25, 105,
       175, 192, 173, 184, 37, 122, 92, 19, 147, 177, 67, 242, 165, 227, 183, 12, 192, 67,
       99, 238, 41, 147, 37, 225, 160, 182, 151, 167, 123, 218, 169, 150, 130, 222, 149,
       71, 236, 207, 250, 166, 70, 110, 220, 61, 207, 152>>>>,
     <<<<53, 48, 101, 100, 101, 99, 57, 101, 52, 102, 54, 97, 53, 51, 100, 56, 101, 51,
       53, 101, 101, 101, 52, 102, 55, 57, 50, 102, 51, 99, 49, 48, 102, 57, 102, 49, 102,
       99, 57, 99, 52, 49, 100, 97, 53, 50, 99, 55, 97, 50, 55, 97, 100, 57, 56, 48, 97,
       50, 102, 48, 98, 52, 57, 55>>,
       <<77, 84, 65, 48, 101, 68, 107, 113, 77, 86, 90, 55, 78, 87, 120, 111, 78, 106, 81,
       120>>,
       <<73, 191, 231, 238, 108, 67, 8, 20, 221, 122, 215, 211, 122, 77, 216, 141, 121,
       236, 84, 151, 239, 124, 181, 87, 139, 99, 210, 154, 68, 69, 215, 142, 118, 62, 103,
       246, 96, 4, 194, 65, 220, 218, 98, 233, 200, 91, 150, 240, 27, 81, 63, 232, 24,
       177, 1, 136, 249, 136, 3, 201, 72, 195, 249, 245>>>>,
     <<<<53, 48, 101, 100, 101, 99, 57, 101, 52, 102, 54, 97, 53, 51, 100, 56, 101, 51,
       53, 101, 101, 101, 52, 102, 55, 57, 50, 102, 51, 99, 49, 48, 102, 57, 102, 49, 102,
       99, 57, 99, 52, 49, 100, 97, 53, 50, 99, 55, 97, 50, 55, 97, 100, 57, 56, 48, 97,
       50, 102, 48, 98, 52, 57, 55>>,
       <<77, 84, 65, 48, 101, 68, 107, 113, 77, 86, 90, 55, 78, 87, 120, 111, 78, 106, 81,
       120, 77, 68, 65>>,
       <<16, 18, 33, 0, 2, 243, 255, 239, 192, 39, 172, 162, 9, 228, 52, 14, 191, 64, 213,
       11, 232, 27, 45, 103, 244, 3, 135, 38, 151, 177, 175, 26, 92, 58, 116, 59, 26, 89,
       103, 4, 82, 9, 169, 107, 138, 163, 102, 202, 95, 20, 33, 167, 145, 44, 154, 163,
       13, 104, 44, 112, 11, 90, 58, 194>>>>,
     <<<<53, 101, 49, 97, 50, 98, 57, 57, 102, 50, 97, 98, 52, 55, 53, 50, 53, 49, 54,
       100, 49, 56, 56, 51, 97, 100, 51, 102, 53, 101, 56, 102, 55, 100, 48, 56, 49, 53,
       48, 54, 98, 99, 102, 101, 99, 98, 56, 51, 102, 97, 55, 97, 52, 57, 102, 48, 102,
       100, 102, 100, 49, 53, 100, 48>>,
       <<77, 68, 69, 119, 77, 81>>,
       <<175, 188, 141, 44, 15, 31, 233, 101, 47, 111, 123, 124, 147, 42, 94, 209, 150,
       49, 9, 162, 244, 172, 251, 246, 12, 165, 128, 153, 137, 231, 157, 220, 165, 225,
       63, 62, 237, 51, 173, 254, 9, 147, 5, 187, 27, 35, 251, 50, 188, 39, 44, 57, 33,
       48, 228, 207, 96, 205, 28, 178, 189, 231, 156, 177>>>>,
     <<<<53, 101, 49, 97, 50, 98, 57, 57, 102, 50, 97, 98, 52, 55, 53, 50, 53, 49, 54,
       100, 49, 56, 56, 51, 97, 100, 51, 102, 53, 101, 56, 102, 55, 100, 48, 56, 49, 53,
       48, 54, 98, 99, 102, 101, 99, 98, 56, 51, 102, 97, 55, 97, 52, 57, 102, 48, 102,
       100, 102, 100, 49, 53, 100, 48>>,
       <<77, 68, 69, 119, 77, 84, 65, 119>>,
       <<180, 75, 169, 90, 38, 25, 231, 91, 43, 234, 24, 251, 111, 11, 33, 14, 70, 124,
       155, 236, 78, 214, 251, 136, 251, 202, 254, 243, 16, 112, 236, 186, 120, 16, 83,
       129, 199, 137, 228, 73, 15, 120, 87, 85, 9, 156, 99, 220, 239, 209, 56, 52, 200,
       82, 97, 183, 62, 200, 76, 211, 237, 24, 93, 51>>>>,
     <<<<53, 101, 49, 97, 50, 98, 57, 57, 102, 50, 97, 98, 52, 55, 53, 50, 53, 49, 54,
       100, 49, 56, 56, 51, 97, 100, 51, 102, 53, 101, 56, 102, 55, 100, 48, 56, 49, 53,
       48, 54, 98, 99, 102, 101, 99, 98, 56, 51, 102, 97, 55, 97, 52, 57, 102, 48, 102,
       100, 102, 100, 49, 53, 100, 48>>,
       <<77, 68, 89, 48, 77, 81>>,
       <<199, 134, 42, 32, 157, 0, 198, 13, 135, 85, 132, 55, 221, 11, 215, 165, 23, 48,
       75, 158, 79, 141, 140, 166, 33, 127, 238, 44, 244, 48, 191, 188, 154, 183, 249,
       206, 95, 144, 230, 186, 4, 243, 144, 96, 186, 61, 242, 24, 27, 157, 71, 99, 176,
       20, 123, 12, 156, 178, 207, 145, 135, 225, 199, 159>>>>,
     <<<<53, 101, 49, 97, 50, 98, 57, 57, 102, 50, 97, 98, 52, 55, 53, 50, 53, 49, 54,
       100, 49, 56, 56, 51, 97, 100, 51, 102, 53, 101, 56, 102, 55, 100, 48, 56, 49, 53,
       48, 54, 98, 99, 102, 101, 99, 98, 56, 51, 102, 97, 55, 97, 52, 57, 102, 48, 102,
       100, 102, 100, 49, 53, 100, 48>>,
       <<77, 68, 89, 48, 77, 84, 65, 119>>,
       <<67, 52, 90, 135, 113, 45, 19, 150, 7, 105, 53, 195, 244, 68, 51, 13, 55, 32, 104,
       233, 110, 177, 47, 87, 128, 174, 72, 14, 15, 119, 44, 179, 82, 126, 96, 168, 73,
       221, 42, 52, 111, 138, 224, 247, 30, 137, 80, 233, 118, 227, 22, 163, 40, 110, 77,
       242, 69, 20, 88, 44, 199, 221, 175, 130>>>>,
     <<<<53, 101, 49, 97, 50, 98, 57, 57, 102, 50, 97, 98, 52, 55, 53, 50, 53, 49, 54,
       100, 49, 56, 56, 51, 97, 100, 51, 102, 53, 101, 56, 102, 55, 100, 48, 56, 49, 53,
       48, 54, 98, 99, 102, 101, 99, 98, 56, 51, 102, 97, 55, 97, 52, 57, 102, 48, 102,
       100, 102, 100, 49, 53, 100, 48>>,
       <<77, 84, 65, 48, 101, 68, 107, 113, 77, 86, 90, 55, 78, 87, 120, 111, 77, 84, 65,
       120>>,
       <<47, 47, 147, 222, 180, 173, 108, 237, 240, 23, 131, 184, 166, 164, 204, 201, 87,
       143, 51, 142, 162, 139, 34, 162, 51, 138, 144, 59, 192, 231, 122, 98, 122, 108,
       182, 217, 156, 154, 38, 127, 138, 239, 194, 180, 85, 150, 80, 27, 11, 235, 71, 209,
       207, 160, 247, 79, 165, 4, 43, 69, 47, 135, 247, 82>>>>,
     <<<<53, 101, 49, 97, 50, 98, 57, 57, 102, 50, 97, 98, 52, 55, 53, 50, 53, 49, 54,
       100, 49, 56, 56, 51, 97, 100, 51, 102, 53, 101, 56, 102, 55, 100, 48, 56, 49, 53,
       48, 54, 98, 99, 102, 101, 99, 98, 56, 51, 102, 97, 55, 97, 52, 57, 102, 48, 102,
       100, 102, 100, 49, 53, 100, 48>>,
       <<77, 84, 65, 48, 101, 68, 107, 113, 77, 86, 90, 55, 78, 87, 120, 111, 77, 84, 65,
       120, 77, 68, 65>>,
       <<232, 69, 14, 255, 248, 166, 149, 159, 144, 213, 210, 237, 172, 20, 3, 163, 195,
       114, 101, 51, 72, 127, 25, 217, 192, 205, 207, 152, 155, 188, 49, 17, 76, 253, 194,
       202, 208, 200, 113, 237, 228, 19, 210, 76, 2, 92, 35, 244, 224, 114, 162, 80, 225,
       126, 150, 135, 158, 142, 95, 253, 70, 179, 151, 13>>>>,
     <<<<53, 101, 49, 97, 50, 98, 57, 57, 102, 50, 97, 98, 52, 55, 53, 50, 53, 49, 54,
       100, 49, 56, 56, 51, 97, 100, 51, 102, 53, 101, 56, 102, 55, 100, 48, 56, 49, 53,
       48, 54, 98, 99, 102, 101, 99, 98, 56, 51, 102, 97, 55, 97, 52, 57, 102, 48, 102,
       100, 102, 100, 49, 53, 100, 48>>,
       <<77, 84, 65, 48, 101, 68, 107, 113, 77, 86, 90, 55, 78, 87, 120, 111, 78, 106, 81,
       120>>,
       <<89, 234, 230, 137, 207, 228, 181, 29, 20, 165, 15, 80, 127, 24, 18, 115, 208,
       196, 137, 147, 77, 190, 76, 36, 63, 134, 125, 34, 52, 13, 190, 225, 85, 108, 83,
       180, 42, 60, 150, 241, 51, 213, 215, 166, 71, 148, 59, 180, 61, 106, 57, 7, 72,
       152, 223, 197, 146, 154, 195, 172, 51, 144, 186, 89>>>>,
     <<<<53, 101, 49, 97, 50, 98, 57, 57, 102, 50, 97, 98, 52, 55, 53, 50, 53, 49, 54,
       100, 49, 56, 56, 51, 97, 100, 51, 102, 53, 101, 56, 102, 55, 100, 48, 56, 49, 53,
       48, 54, 98, 99, 102, 101, 99, 98, 56, 51, 102, 97, 55, 97, 52, 57, 102, 48, 102,
       100, 102, 100, 49, 53, 100, 48>>,
       <<77, 84, 65, 48, 101, 68, 107, 113, 77, 86, 90, 55, 78, 87, 120, 111, 78, 106, 81,
       120, 77, 68, 65>>,
       <<83, 187, 169, 174, 78, 42, 149, 33, 198, 170, 6, 113, 115, 182, 98, 66, 183, 194,
       255, 69, 149, 100, 230, 128, 195, 134, 22, 247, 7, 122, 253, 103, 119, 78, 144,
       243, 80, 223, 10, 217, 63, 160, 203, 83, 182, 190, 8, 50, 11, 28, 253, 126, 99,
       178, 16, 35, 118, 170, 228, 84, 108, 217, 72, 2>>>>,
     <<<<54, 49, 98, 100, 100, 54, 52, 101, 56, 50, 102, 102, 54, 49, 53, 102, 54, 50, 51,
       100, 56, 54, 56, 54, 100, 53, 100, 50, 57, 100, 100, 98, 100, 57, 51, 50, 53, 101,
       102, 52, 52, 101, 100, 98, 54, 102, 53, 55, 99, 99, 54, 50, 97, 51, 53, 54, 57, 57,
       50, 101, 54, 55, 98, 98>>,
       <<77, 68, 69, 119, 77, 81>>,
       <<178, 137, 114, 18, 105, 106, 132, 36, 35, 159, 141, 111, 225, 51, 135, 213, 24,
       117, 231, 69, 3, 168, 146, 170, 148, 77, 30, 245, 40, 102, 152, 172, 82, 46, 111,
       163, 215, 196, 110, 169, 164, 239, 40, 86, 107, 239, 67, 172, 125, 63, 223, 67,
       205, 244, 121, 225, 143, 2, 224, 133, 156, 52, 168, 18>>>>,
     <<<<54, 49, 98, 100, 100, 54, 52, 101, 56, 50, 102, 102, 54, 49, 53, 102, 54, 50, 51,
       100, 56, 54, 56, 54, 100, 53, 100, 50, 57, 100, 100, 98, 100, 57, 51, 50, 53, 101,
       102, 52, 52, 101, 100, 98, 54, 102, 53, 55, 99, 99, 54, 50, 97, 51, 53, 54, 57, 57,
       50, 101, 54, 55, 98, 98>>,
       <<77, 68, 69, 119, 77, 84, 65, 119>>,
       <<195, 67, 136, 32, 194, 137, 52, 2, 162, 3, 177, 160, 94, 78, 47, 57, 51, 117, 46,
       26, 222, 251, 73, 61, 94, 192, 75, 15, 13, 57, 174, 56, 134, 232, 210, 5, 144, 149,
       240, 7, 52, 72, 50, 48, 231, 22, 221, 79, 118, 113, 191, 163, 54, 71, 21, 198, 135,
       32, 221, 190, 25, 123, 243, 200>>>>,
     <<<<54, 49, 98, 100, 100, 54, 52, 101, 56, 50, 102, 102, 54, 49, 53, 102, 54, 50, 51,
       100, 56, 54, 56, 54, 100, 53, 100, 50, 57, 100, 100, 98, 100, 57, 51, 50, 53, 101,
       102, 52, 52, 101, 100, 98, 54, 102, 53, 55, 99, 99, 54, 50, 97, 51, 53, 54, 57, 57,
       50, 101, 54, 55, 98, 98>>,
       <<77, 68, 89, 48, 77, 81>>,
       <<217, 27, 173, 180, 50, 59, 176, 83, 63, 166, 112, 198, 217, 114, 218, 31, 241,
       132, 230, 244, 172, 209, 136, 112, 0, 220, 77, 90, 77, 223, 228, 81, 236, 161, 138,
       24, 190, 147, 165, 89, 223, 169, 175, 255, 90, 94, 28, 120, 129, 89, 252, 223, 189,
       155, 151, 197, 50, 91, 216, 191, 117, 228, 207, 28>>>>,
     <<<<54, 49, 98, 100, 100, 54, 52, 101, 56, 50, 102, 102, 54, 49, 53, 102, 54, 50, 51,
       100, 56, 54, 56, 54, 100, 53, 100, 50, 57, 100, 100, 98, 100, 57, 51, 50, 53, 101,
       102, 52, 52, 101, 100, 98, 54, 102, 53, 55, 99, 99, 54, 50, 97, 51, 53, 54, 57, 57,
       50, 101, 54, 55, 98, 98>>,
       <<77, 68, 89, 48, 77, 84, 65, 119>>,
       <<9, 83, 77, 3, 28, 119, 225, 70, 172, 169, 165, 73, 206, 215, 43, 58, 240, 192,
       125, 35, 200, 56, 133, 123, 72, 102, 24, 198, 113, 118, 95, 165, 81, 13, 134, 3,
       196, 160, 60, 196, 164, 160, 51, 214, 22, 163, 148, 250, 234, 151, 214, 214, 32,
       202, 244, 75, 114, 148, 150, 141, 20, 65, 144, 221>>>>,
     <<<<54, 49, 98, 100, 100, 54, 52, 101, 56, 50, 102, 102, 54, 49, 53, 102, 54, 50, 51,
       100, 56, 54, 56, 54, 100, 53, 100, 50, 57, 100, 100, 98, 100, 57, 51, 50, 53, 101,
       102, 52, 52, 101, 100, 98, 54, 102, 53, 55, 99, 99, 54, 50, 97, 51, 53, 54, 57, 57,
       50, 101, 54, 55, 98, 98>>,
       <<77, 84, 65, 48, 101, 68, 107, 113, 77, 86, 90, 55, 78, 87, 120, 111, 77, 84, 65,
       120>>,
       <<134, 126, 235, 2, 243, 21, 188, 30, 35, 97, 22, 131, 87, 235, 140, 114, 225, 90,
       206, 114, 19, 13, 164, 16, 72, 35, 150, 210, 130, 161, 235, 130, 220, 3, 56, 118,
       245, 90, 236, 4, 111, 107, 148, 195, 92, 133, 104, 1, 44, 227, 39, 19, 30, 113, 88,
       88, 230, 43, 40, 85, 230, 203, 186, 12>>>>,
     <<<<54, 49, 98, 100, 100, 54, 52, 101, 56, 50, 102, 102, 54, 49, 53, 102, 54, 50, 51,
       100, 56, 54, 56, 54, 100, 53, 100, 50, 57, 100, 100, 98, 100, 57, 51, 50, 53, 101,
       102, 52, 52, 101, 100, 98, 54, 102, 53, 55, 99, 99, 54, 50, 97, 51, 53, 54, 57, 57,
       50, 101, 54, 55, 98, 98>>,
       <<77, 84, 65, 48, 101, 68, 107, 113, 77, 86, 90, 55, 78, 87, 120, 111, 77, 84, 65,
       120, 77, 68, 65>>,
       <<64, 76, 92, 69, 19, 106, 122, 152, 105, 160, 189, 219, 100, 84, 101, 241, 156,
       99, 100, 247, 140, 41, 35, 86, 188, 221, 88, 79, 145, 133, 170, 229, 59, 163, 243,
       101, 241, 204, 1, 169, 50, 126, 126, 189, 70, 100, 112, 187, 162, 174, 104, 123,
       179, 186, 70, 242, 208, 75, 151, 46, 164, 79, 126, 41>>>>,
     <<<<54, 49, 98, 100, 100, 54, 52, 101, 56, 50, 102, 102, 54, 49, 53, 102, 54, 50, 51,
       100, 56, 54, 56, 54, 100, 53, 100, 50, 57, 100, 100, 98, 100, 57, 51, 50, 53, 101,
       102, 52, 52, 101, 100, 98, 54, 102, 53, 55, 99, 99, 54, 50, 97, 51, 53, 54, 57, 57,
       50, 101, 54, 55, 98, 98>>,
       <<77, 84, 65, 48, 101, 68, 107, 113, 77, 86, 90, 55, 78, 87, 120, 111, 78, 106, 81,
       120>>,
       <<111, 82, 143, 17, 84, 88, 37, 94, 199, 171, 138, 105, 239, 42, 44, 121, 70, 94,
       229, 167, 155, 96, 255, 98, 164, 71, 5, 63, 161, 197, 78, 33, 81, 25, 0, 169, 245,
       243, 72, 229, 147, 229, 230, 105, 248, 232, 218, 64, 80, 35, 244, 105, 49, 92, 199,
       161, 192, 20, 89, 72, 136, 205, 184, 52>>>>,
     <<<<54, 49, 98, 100, 100, 54, 52, 101, 56, 50, 102, 102, 54, 49, 53, 102, 54, 50, 51,
       100, 56, 54, 56, 54, 100, 53, 100, 50, 57, 100, 100, 98, 100, 57, 51, 50, 53, 101,
       102, 52, 52, 101, 100, 98, 54, 102, 53, 55, 99, 99, 54, 50, 97, 51, 53, 54, 57, 57,
       50, 101, 54, 55, 98, 98>>,
       <<77, 84, 65, 48, 101, 68, 107, 113, 77, 86, 90, 55, 78, 87, 120, 111, 78, 106, 81,
       120, 77, 68, 65>>,
       <<80, 254, 143, 28, 200, 69, 129, 83, 252, 49, 126, 141, 74, 137, 152, 243, 166,
       74, 166, 59, 85, 218, 209, 202, 214, 113, 113, 20, 162, 30, 241, 221, 230, 142, 50,
       200, 90, 36, 178, 78, 239, 130, 143, 129, 143, 116, 182, 102, 239, 3, 95, 180, 44,
       169, 139, 164, 142, 22, 47, 214, 164, 206, 247, 140>>>>,
     <<<<55, 97, 100, 53, 100, 56, 100, 102, 57, 102, 56, 48, 102, 55, 52, 57, 102, 100,
       52, 51, 49, 54, 99, 57, 54, 56, 49, 55, 49, 57, 101, 98, 55, 98, 97, 50, 57, 99,
       50, 52, 99, 51, 56, 51, 49, 49, 100, 48, 101, 57, 98, 98, 53, 54, 48, 52, 55, 48,
       50, 52, 97, 98, 57, 49>>,
       <<77, 68, 69>>,
       <<128, 83, 14, 1, 112, 122, 168, 30, 128, 58, 122, 73, 222, 43, 96, 252, 76, 147,
       241, 99, 194, 182, 132, 36, 136, 178, 111, 220, 52, 24, 102, 199, 168, 62, 59, 117,
       95, 151, 21, 186, 23, 165, 33, 192, 64, 96, 62, 50, 4, 60, 203, 150, 229, 215, 79,
       244, 98, 254, 250, 120, 72, 13, 17, 108>>>>,
     <<<<55, 97, 100, 53, 100, 56, 100, 102, 57, 102, 56, 48, 102, 55, 52, 57, 102, 100,
       52, 51, 49, 54, 99, 57, 54, 56, 49, 55, 49, 57, 101, 98, 55, 98, 97, 50, 57, 99,
       50, 52, 99, 51, 56, 51, 49, 49, 100, 48, 101, 57, 98, 98, 53, 54, 48, 52, 55, 48,
       50, 52, 97, 98, 57, 49>>,
       <<77, 68, 69, 119, 77, 65>>,
       <<0, 16, 42, 30, 36, 89, 25, 13, 7, 237, 89, 118, 238, 67, 81, 12, 12, 202, 185,
       254, 255, 188, 105, 236, 81, 12, 124, 120, 107, 166, 23, 129, 27, 0, 175, 125, 98,
       4, 160, 156, 217, 162, 101, 168, 141, 204, 231, 230, 135, 231, 59, 64, 171, 130,
       254, 92, 6, 245, 50, 222, 202, 255, 119, 63>>>>,
     <<<<55, 97, 100, 53, 100, 56, 100, 102, 57, 102, 56, 48, 102, 55, 52, 57, 102, 100,
       52, 51, 49, 54, 99, 57, 54, 56, 49, 55, 49, 57, 101, 98, 55, 98, 97, 50, 57, 99,
       50, 52, 99, 51, 56, 51, 49, 49, 100, 48, 101, 57, 98, 98, 53, 54, 48, 52, 55, 48,
       50, 52, 97, 98, 57, 49>>,
       <<77, 68, 69, 119, 77, 81>>,
       <<230, 196, 215, 159, 182, 73, 200, 242, 180, 116, 54, 64, 74, 173, 169, 69, 110,
       51, 158, 73, 107, 118, 196, 125, 112, 247, 254, 30, 212, 192, 228, 201, 163, 83,
       124, 48, 201, 201, 70, 172, 211, 184, 85, 158, 14, 165, 151, 185, 204, 26, 205, 90,
       139, 10, 154, 92, 180, 39, 175, 15, 141, 200, 221, 158>>>>,
     <<<<55, 97, 100, 53, 100, 56, 100, 102, 57, 102, 56, 48, 102, 55, 52, 57, 102, 100,
       52, 51, 49, 54, 99, 57, 54, 56, 49, 55, 49, 57, 101, 98, 55, 98, 97, 50, 57, 99,
       50, 52, 99, 51, 56, 51, 49, 49, 100, 48, 101, 57, 98, 98, 53, 54, 48, 52, 55, 48,
       50, 52, 97, 98, 57, 49>>,
       <<77, 68, 69, 119, 77, 84, 65, 119>>,
       <<167, 24, 171, 220, 18, 161, 12, 115, 104, 250, 204, 117, 89, 195, 176, 181, 167,
       109, 45, 133, 27, 192, 100, 234, 78, 231, 48, 212, 218, 35, 241, 165, 124, 54, 211,
       146, 206, 40, 49, 45, 27, 68, 194, 183, 227, 205, 164, 60, 60, 75, 149, 14, 12, 27,
       56, 220, 85, 85, 70, 36, 123, 62, 42, 236>>>>,
     <<<<55, 97, 100, 53, 100, 56, 100, 102, 57, 102, 56, 48, 102, 55, 52, 57, 102, 100,
       52, 51, 49, 54, 99, 57, 54, 56, 49, 55, 49, 57, 101, 98, 55, 98, 97, 50, 57, 99,
       50, 52, 99, 51, 56, 51, 49, 49, 100, 48, 101, 57, 98, 98, 53, 54, 48, 52, 55, 48,
       50, 52, 97, 98, 57, 49>>,
       <<77, 68, 69, 120>>,
       <<201, 3, 39, 5, 75, 51, 91, 29, 170, 163, 79, 255, 130, 68, 73, 220, 52, 200, 225,
       239, 218, 240, 199, 1, 177, 220, 191, 251, 146, 146, 181, 244, 0, 193, 129, 109,
       161, 192, 149, 224, 250, 120, 144, 19, 135, 7, 162, 12, 156, 39, 8, 63, 202, 156,
       186, 244, 107, 193, 153, 251, 176, 22, 193, 200>>>>,
     <<<<55, 97, 100, 53, 100, 56, 100, 102, 57, 102, 56, 48, 102, 55, 52, 57, 102, 100,
       52, 51, 49, 54, 99, 57, 54, 56, 49, 55, 49, 57, 101, 98, 55, 98, 97, 50, 57, 99,
       50, 52, 99, 51, 56, 51, 49, 49, 100, 48, 101, 57, 98, 98, 53, 54, 48, 52, 55, 48,
       50, 52, 97, 98, 57, 49>>,
       <<77, 68, 69, 120, 77, 68, 65>>,
       <<1, 1, 115, 1, 246, 156, 63, 174, 133, 145, 231, 208, 123, 47, 112, 144, 17, 65,
       102, 176, 37, 170, 61, 148, 169, 228, 150, 143, 186, 185, 25, 170, 239, 238, 171,
       1, 0, 176, 156, 217, 163, 86, 40, 67, 88, 217, 221, 114, 46, 74, 233, 76, 254, 130,
       224, 222, 127, 226, 6, 185, 122, 180, 93, 144>>>>,
     <<<<55, 97, 100, 53, 100, 56, 100, 102, 57, 102, 56, 48, 102, 55, 52, 57, 102, 100,
       52, 51, 49, 54, 99, 57, 54, 56, 49, 55, 49, 57, 101, 98, 55, 98, 97, 50, 57, 99,
       50, 52, 99, 51, 56, 51, 49, 49, 100, 48, 101, 57, 98, 98, 53, 54, 48, 52, 55, 48,
       50, 52, 97, 98, 57, 49>>,
       <<77, 68, 69, 120, 77, 81>>,
       <<179, 153, 131, 23, 173, 94, 75, 15, 109, 128, 146, 41, 51, 177, 68, 253, 195, 84,
       122, 181, 44, 4, 78, 187, 242, 1, 210, 54, 103, 126, 255, 59, 61, 104, 170, 238,
       80, 177, 166, 4, 90, 248, 70, 17, 152, 230, 58, 224, 32, 96, 246, 131, 231, 164,
       167, 92, 210, 3, 214, 90, 20, 37, 177, 48>>>>,
     <<<<55, 97, 100, 53, 100, 56, 100, 102, 57, 102, 56, 48, 102, 55, 52, 57, 102, 100,
       52, 51, 49, 54, 99, 57, 54, 56, 49, 55, 49, 57, 101, 98, 55, 98, 97, 50, 57, 99,
       50, 52, 99, 51, 56, 51, 49, 49, 100, 48, 101, 57, 98, 98, 53, 54, 48, 52, 55, 48,
       50, 52, 97, 98, 57, 49>>,
       <<77, 68, 69, 120, 77, 84, 69>>,
       <<101, 249, 219, 16, 88, 98, 161, 86, 230, 197, 11, 210, 171, 222, 172, 143, 65,
       208, 156, 120, 17, 31, 249, 185, 162, 234, 194, 181, 2, 81, 153, 20, 201, 211, 55,
       251, 6, 4, 147, 80, 115, 90, 5, 14, 7, 123, 119, 64, 120, 129, 180, 200, 155, 103,
       118, 105, 79, 30, 194, 16, 136, 228, 81, 0>>>>,
     <<<<55, 97, 100, 53, 100, 56, 100, 102, 57, 102, 56, 48, 102, 55, 52, 57, 102, 100,
       52, 51, 49, 54, 99, 57, 54, 56, 49, 55, 49, 57, 101, 98, 55, 98, 97, 50, 57, 99,
       50, 52, 99, 51, 56, 51, 49, 49, 100, 48, 101, 57, 98, 98, 53, 54, 48, 52, 55, 48,
       50, 52, 97, 98, 57, 49>>,
       <<77, 68, 69, 120, 77, 84, 69, 120>>,
       <<32, 175, 131, 82, 71, 93, 161, 110, 100, 8, 180, 8, 8, 168, 224, 48, 134, 37,
       130, 93, 153, 151, 4, 67, 146, 102, 12, 203, 235, 115, 153, 187, 207, 33, 247, 237,
       216, 9, 132, 82, 127, 218, 99, 238, 211, 156, 235, 24, 75, 71, 216, 107, 254, 188,
       44, 174, 199, 232, 242, 170, 131, 158, 73, 53>>>>,
     <<<<55, 97, 100, 53, 100, 56, 100, 102, 57, 102, 56, 48, 102, 55, 52, 57, 102, 100,
       52, 51, 49, 54, 99, 57, 54, 56, 49, 55, 49, 57, 101, 98, 55, 98, 97, 50, 57, 99,
       50, 52, 99, 51, 56, 51, 49, 49, 100, 48, 101, 57, 98, 98, 53, 54, 48, 52, 55, 48,
       50, 52, 97, 98, 57, 49>>,
       <<77, 68, 69, 120, 77, 84, 73>>,
       <<131, 70, 145, 213, 152, 127, 126, 29, 206, 163, 75, 109, 204, 226, 138, 176, 244,
       72, 11, 135, 185, 26, 120, 83, 164, 2, 232, 9, 214, 150, 137, 36, 58, 116, 114, 12,
       134, 110, 36, 82, 19, 216, 54, 148, 25, 217, 29, 166, 180, 214, 76, 191, 141, 97,
       23, 1, 154, 122, 80, 190, 51, 155, 138, 83>>>>,
     <<<<55, 97, 100, 53, 100, 56, 100, 102, 57, 102, 56, 48, 102, 55, 52, 57, 102, 100,
       52, 51, 49, 54, 99, 57, 54, 56, 49, 55, 49, 57, 101, 98, 55, 98, 97, 50, 57, 99,
       50, 52, 99, 51, 56, 51, 49, 49, 100, 48, 101, 57, 98, 98, 53, 54, 48, 52, 55, 48,
       50, 52, 97, 98, 57, 49>>,
       <<77, 68, 69, 120, 77, 103>>,
       <<22, 112, 14, 221, 201, 34, 218, 75, 239, 184, 118, 56, 205, 136, 7, 187, 120, 78,
       80, 221, 90, 174, 102, 179, 175, 135, 215, 95, 252, 208, 56, 49, 182, 249, 139,
       221, 209, 213, 161, 0, 132, 219, 245, 64, 79, 146, 38, 96, 249, 108, 227, 171, 224,
       238, 17, 167, 33, 190, 254, 169, 236, 103, 146, 11>>>>,
     <<<<55, 97, 100, 53, 100, 56, 100, 102, 57, 102, 56, 48, 102, 55, 52, 57, 102, 100,
       52, 51, 49, 54, 99, 57, 54, 56, 49, 55, 49, 57, 101, 98, 55, 98, 97, 50, 57, 99,
       50, 52, 99, 51, 56, 51, 49, 49, 100, 48, 101, 57, 98, 98, 53, 54, 48, 52, 55, 48,
       50, 52, 97, 98, 57, 49>>,
       <<77, 68, 69, 120, 77, 106, 77, 48, 78, 84, 89, 51, 79, 68, 107, 119, 77, 84, 69>>,
       <<161, 255, 4, 33, 81, 111, 181, 155, 60, 127, 80, 219, 172, 169, 177, 18, 8, 54,
       180, 9, 133, 91, 229, 122, 209, 213, 157, 142, 244, 58, 86, 35, 6, 40, 21, 234,
       159, 84, 112, 23, 248, 159, 231, 61, 193, 190, 163, 53, 3, 238, 165, 7, 224, 222,
       65, 223, 28, 183, 62, 29, 149, 214, 2, 245>>>>,
     <<<<55, 97, 100, 53, 100, 56, 100, 102, 57, 102, 56, 48, 102, 55, 52, 57, 102, 100,
       52, 51, 49, 54, 99, 57, 54, 56, 49, 55, 49, 57, 101, 98, 55, 98, 97, 50, 57, 99,
       50, 52, 99, 51, 56, 51, 49, 49, 100, 48, 101, 57, 98, 98, 53, 54, 48, 52, 55, 48,
       50, 52, 97, 98, 57, 49>>,
       <<77, 68, 69, 121>>,
       <<120, 142, 182, 87, 14, 96, 155, 68, 227, 241, 79, 96, 224, 238, 31, 230, 107,
       113, 159, 56, 63, 16, 181, 50, 53, 33, 100, 184, 194, 253, 180, 137, 95, 9, 39,
       187, 134, 85, 137, 77, 150, 6, 209, 23, 211, 133, 232, 198, 74, 171, 10, 59, 202,
       247, 166, 219, 4, 111, 74, 104, 204, 142, 229, 60>>>>,
     <<<<55, 97, 100, 53, 100, 56, 100, 102, 57, 102, 56, 48, 102, 55, 52, 57, 102, 100,
       52, 51, 49, 54, 99, 57, 54, 56, 49, 55, 49, 57, 101, 98, 55, 98, 97, 50, 57, 99,
       50, 52, 99, 51, 56, 51, 49, 49, 100, 48, 101, 57, 98, 98, 53, 54, 48, 52, 55, 48,
       50, 52, 97, 98, 57, 49>>,
       <<77, 68, 69, 121, 77, 81>>,
       <<31, 22, 67, 114, 197, 195, 136, 37, 188, 39, 9, 83, 143, 152, 249, 140, 175, 65,
       164, 92, 194, 231, 205, 30, 194, 213, 44, 205, 124, 209, 61, 101, 38, 218, 21, 28,
       255, 139, 228, 18, 214, 102, 112, 216, 249, 168, 111, 246, 96, 191, 115, 236, 118,
       148, 0, 206, 8, 158, 178, 49, 86, 204, 194, 154>>>>,
     <<<<55, 97, 100, 53, 100, 56, 100, 102, 57, 102, 56, 48, 102, 55, 52, 57, 102, 100,
       52, 51, 49, 54, 99, 57, 54, 56, 49, 55, 49, 57, 101, 98, 55, 98, 97, 50, 57, 99,
       50, 52, 99, 51, 56, 51, 49, 49, 100, 48, 101, 57, 98, 98, 53, 54, 48, 52, 55, 48,
       50, 52, 97, 98, 57, 49>>,
       <<77, 68, 69, 121, 77, 84, 69>>,
       <<210, 141, 139, 210, 201, 220, 238, 60, 78, 82, 26, 140, 5, 243, 168, 206, 200,
       120, 142, 203, 98, 217, 236, 125, 245, 36, 60, 166, 53, 132, 137, 117, 129, 185,
       62, 105, 225, 208, 156, 221, 239, 223, 104, 123, 111, 113, 0, 216, 21, 88, 208,
       214, 166, 187, 243, 172, 188, 5, 180, 211, 67, 220, 54, 173>>>>,
     <<<<55, 97, 100, 53, 100, 56, 100, 102, 57, 102, 56, 48, 102, 55, 52, 57, 102, 100,
       52, 51, 49, 54, 99, 57, 54, 56, 49, 55, 49, 57, 101, 98, 55, 98, 97, 50, 57, 99,
       50, 52, 99, 51, 56, 51, 49, 49, 100, 48, 101, 57, 98, 98, 53, 54, 48, 52, 55, 48,
       50, 52, 97, 98, 57, 49>>,
       <<77, 68, 69, 121, 77, 84, 69, 120>>,
       <<32, 231, 104, 173, 182, 248, 21, 40, 11, 154, 153, 252, 34, 32, 2, 140, 1, 183,
       31, 169, 152, 146, 145, 223, 100, 228, 85, 81, 146, 128, 149, 33, 253, 160, 97,
       130, 123, 80, 189, 66, 59, 229, 166, 162, 181, 235, 54, 162, 132, 204, 25, 7, 59,
       131, 235, 229, 162, 2, 234, 224, 216, 177, 118, 65>>>>,
     <<<<55, 97, 100, 53, 100, 56, 100, 102, 57, 102, 56, 48, 102, 55, 52, 57, 102, 100,
       52, 51, 49, 54, 99, 57, 54, 56, 49, 55, 49, 57, 101, 98, 55, 98, 97, 50, 57, 99,
       50, 52, 99, 51, 56, 51, 49, 49, 100, 48, 101, 57, 98, 98, 53, 54, 48, 52, 55, 48,
       50, 52, 97, 98, 57, 49>>,
       <<77, 68, 69, 121, 77, 84, 73>>,
       <<108, 253, 80, 42, 20, 94, 250, 137, 150, 227, 202, 244, 103, 0, 72, 9, 59, 194,
       3, 222, 122, 11, 164, 160, 34, 103, 26, 240, 220, 50, 121, 61, 159, 231, 105, 206,
       144, 185, 147, 47, 77, 157, 60, 95, 216, 140, 197, 222, 77, 224, 252, 147, 226,
       239, 225, 217, 39, 117, 129, 13, 235, 198, 203, 190>>>>,
     <<<<55, 97, 100, 53, 100, 56, 100, 102, 57, 102, 56, 48, 102, 55, 52, 57, 102, 100,
       52, 51, 49, 54, 99, 57, 54, 56, 49, 55, 49, 57, 101, 98, 55, 98, 97, 50, 57, 99,
       50, 52, 99, 51, 56, 51, 49, 49, 100, 48, 101, 57, 98, 98, 53, 54, 48, 52, 55, 48,
       50, 52, 97, 98, 57, 49>>,
       <<77, 68, 69, 121, 77, 103>>,
       <<71, 197, 184, 171, 56, 190, 244, 250, 189, 127, 220, 13, 94, 105, 14, 46, 55,
       141, 78, 31, 186, 239, 109, 117, 2, 105, 168, 82, 110, 15, 235, 146, 148, 75, 19,
       108, 246, 243, 231, 154, 220, 236, 3, 13, 217, 27, 42, 237, 33, 185, 105, 55, 59,
       163, 27, 189, 142, 137, 78, 85, 156, 80, 187, 211>>>>,
     <<<<55, 97, 100, 53, 100, 56, 100, 102, 57, 102, 56, 48, 102, 55, 52, 57, 102, 100,
       52, 51, 49, 54, 99, 57, 54, 56, 49, 55, 49, 57, 101, 98, 55, 98, 97, 50, 57, 99,
       50, 52, 99, 51, 56, 51, 49, 49, 100, 48, 101, 57, 98, 98, 53, 54, 48, 52, 55, 48,
       50, 52, 97, 98, 57, 49>>,
       <<77, 68, 69, 121, 77, 106, 77, 48, 78, 84, 89, 51, 79, 68, 107, 119, 77, 84, 69>>,
       <<6, 30, 113, 233, 90, 158, 58, 99, 209, 34, 180, 119, 138, 118, 123, 28, 212, 231,
       7, 43, 124, 175, 145, 254, 14, 140, 72, 37, 242, 223, 47, 69, 69, 236, 140, 249,
       60, 59, 140, 170, 40, 154, 87, 179, 64, 161, 46, 173, 230, 124, 1, 89, 225, 97,
       177, 116, 234, 8, 104, 175, 188, 105, 249, 179>>>>,
     <<<<55, 97, 100, 53, 100, 56, 100, 102, 57, 102, 56, 48, 102, 55, 52, 57, 102, 100,
       52, 51, 49, 54, 99, 57, 54, 56, 49, 55, 49, 57, 101, 98, 55, 98, 97, 50, 57, 99,
       50, 52, 99, 51, 56, 51, 49, 49, 100, 48, 101, 57, 98, 98, 53, 54, 48, 52, 55, 48,
       50, 52, 97, 98, 57, 49>>,
       <<77, 68, 69, 121, 77, 122, 81, 49, 78, 106, 99, 52, 79, 84, 65, 120, 77, 81>>,
       <<44, 52, 85, 158, 97, 47, 74, 241, 253, 208, 139, 194, 181, 21, 41, 132, 104, 226,
       70, 54, 110, 49, 30, 197, 1, 127, 201, 29, 123, 137, 96, 249, 11, 164, 156, 178,
       105, 26, 122, 83, 30, 248, 127, 130, 72, 101, 70, 20, 234, 18, 169, 222, 105, 59,
       114, 118, 206, 108, 53, 23, 6, 86, 158, 20>>>>,
     <<<<55, 97, 100, 53, 100, 56, 100, 102, 57, 102, 56, 48, 102, 55, 52, 57, 102, 100,
       52, 51, 49, 54, 99, 57, 54, 56, 49, 55, 49, 57, 101, 98, 55, 98, 97, 50, 57, 99,
       50, 52, 99, 51, 56, 51, 49, 49, 100, 48, 101, 57, 98, 98, 53, 54, 48, 52, 55, 48,
       50, 52, 97, 98, 57, 49>>,
       <<77, 68, 73>>,
       <<174, 138, 0, 23, 97, 211, 200, 169, 79, 63, 48, 97, 168, 86, 2, 104, 101, 190,
       136, 58, 19, 146, 217, 70, 89, 131, 74, 221, 94, 5, 198, 66, 71, 144, 170, 175,
       169, 69, 160, 71, 147, 65, 161, 208, 204, 66, 201, 186, 153, 155, 224, 6, 35, 57,
       210, 199, 84, 236, 161, 66, 99, 106, 205, 142>>>>,
     <<<<55, 97, 100, 53, 100, 56, 100, 102, 57, 102, 56, 48, 102, 55, 52, 57, 102, 100,
       52, 51, 49, 54, 99, 57, 54, 56, 49, 55, 49, 57, 101, 98, 55, 98, 97, 50, 57, 99,
       50, 52, 99, 51, 56, 51, 49, 49, 100, 48, 101, 57, 98, 98, 53, 54, 48, 52, 55, 48,
       50, 52, 97, 98, 57, 49>>,
       <<77, 68, 73, 120>>,
       <<235, 112, 136, 248, 73, 78, 3, 23, 38, 180, 53, 35, 45, 50, 175, 96, 202, 103,
       70, 71, 38, 57, 205, 24, 155, 250, 147, 154, 10, 217, 248, 32, 84, 98, 252, 157,
       191, 218, 58, 246, 44, 232, 73, 96, 4, 3, 242, 119, 147, 121, 44, 42, 230, 190,
       243, 49, 6, 65, 102, 248, 241, 93, 90, 143>>>>,
     <<<<55, 97, 100, 53, 100, 56, 100, 102, 57, 102, 56, 48, 102, 55, 52, 57, 102, 100,
       52, 51, 49, 54, 99, 57, 54, 56, 49, 55, 49, 57, 101, 98, 55, 98, 97, 50, 57, 99,
       50, 52, 99, 51, 56, 51, 49, 49, 100, 48, 101, 57, 98, 98, 53, 54, 48, 52, 55, 48,
       50, 52, 97, 98, 57, 49>>,
       <<77, 68, 73, 120, 77, 81>>,
       <<62, 26, 69, 20, 86, 246, 22, 65, 110, 255, 75, 34, 134, 201, 82, 47, 102, 156, 5,
       4, 6, 137, 144, 184, 57, 226, 2, 179, 13, 144, 21, 140, 120, 212, 176, 54, 35, 185,
       171, 146, 208, 255, 234, 211, 142, 223, 151, 102, 87, 73, 108, 104, 197, 213, 78,
       10, 49, 82, 96, 215, 80, 52, 137, 177>>>>,
     <<<<55, 97, 100, 53, 100, 56, 100, 102, 57, 102, 56, 48, 102, 55, 52, 57, 102, 100,
       52, 51, 49, 54, 99, 57, 54, 56, 49, 55, 49, 57, 101, 98, 55, 98, 97, 50, 57, 99,
       50, 52, 99, 51, 56, 51, 49, 49, 100, 48, 101, 57, 98, 98, 53, 54, 48, 52, 55, 48,
       50, 52, 97, 98, 57, 49>>,
       <<77, 68, 73, 120, 77, 84, 69>>,
       <<58, 24, 115, 190, 200, 243, 157, 21, 221, 23, 187, 201, 36, 242, 196, 246, 235,
       220, 166, 144, 230, 30, 165, 111, 3, 128, 21, 139, 108, 183, 30, 118, 165, 233,
       134, 7, 31, 98, 10, 4, 55, 245, 125, 46, 158, 215, 46, 89, 207, 144, 67, 207, 247,
       108, 229, 9, 10, 240, 207, 157, 215, 203, 34, 186>>>>,
     <<<<55, 97, 100, 53, 100, 56, 100, 102, 57, 102, 56, 48, 102, 55, 52, 57, 102, 100,
       52, 51, 49, 54, 99, 57, 54, 56, 49, 55, 49, 57, 101, 98, 55, 98, 97, 50, 57, 99,
       50, 52, 99, 51, 56, 51, 49, 49, 100, 48, 101, 57, 98, 98, 53, 54, 48, 52, 55, 48,
       50, 52, 97, 98, 57, 49>>,
       <<77, 68, 73, 120, 77, 103>>,
       <<148, 8, 155, 185, 29, 223, 85, 54, 221, 41, 174, 190, 227, 99, 180, 90, 54, 158,
       237, 123, 102, 101, 221, 236, 227, 168, 112, 142, 234, 185, 74, 193, 50, 193, 12,
       126, 54, 160, 122, 3, 6, 166, 214, 73, 239, 98, 214, 162, 23, 111, 172, 33, 162,
       21, 216, 197, 169, 238, 35, 236, 39, 190, 51, 125>>>>,
     <<<<55, 97, 100, 53, 100, 56, 100, 102, 57, 102, 56, 48, 102, 55, 52, 57, 102, 100,
       52, 51, 49, 54, 99, 57, 54, 56, 49, 55, 49, 57, 101, 98, 55, 98, 97, 50, 57, 99,
       50, 52, 99, 51, 56, 51, 49, 49, 100, 48, 101, 57, 98, 98, 53, 54, 48, 52, 55, 48,
       50, 52, 97, 98, 57, 49>>,
       <<77, 68, 73, 121>>,
       <<202, 6, 130, 124, 9, 156, 189, 193, 164, 125, 92, 190, 227, 107, 55, 88, 242, 41,
       5, 254, 189, 220, 77, 59, 142, 220, 162, 197, 116, 90, 168, 44, 50, 103, 173, 246,
       40, 183, 26, 196, 135, 168, 141, 44, 253, 98, 221, 237, 216, 204, 177, 179, 217,
       38, 201, 194, 15, 229, 13, 93, 252, 156, 153, 78>>>>,
     <<<<55, 97, 100, 53, 100, 56, 100, 102, 57, 102, 56, 48, 102, 55, 52, 57, 102, 100,
       52, 51, 49, 54, 99, 57, 54, 56, 49, 55, 49, 57, 101, 98, 55, 98, 97, 50, 57, 99,
       50, 52, 99, 51, 56, 51, 49, 49, 100, 48, 101, 57, 98, 98, 53, 54, 48, 52, 55, 48,
       50, 52, 97, 98, 57, 49>>,
       <<77, 68, 73, 121, 77, 122, 81, 49, 78, 106, 99, 52, 79, 84, 65, 120, 77, 81>>,
       <<157, 229, 20, 140, 254, 79, 144, 115, 39, 62, 92, 208, 254, 42, 54, 122, 85, 1,
       130, 146, 233, 48, 26, 69, 99, 18, 121, 211, 151, 155, 213, 98, 99, 96, 242, 125,
       184, 35, 219, 10, 67, 171, 52, 34, 83, 175, 148, 17, 70, 127, 184, 15, 34, 181, 37,
       150, 39, 186, 207, 245, 107, 227, 91, 250>>>>,
     <<<<55, 97, 100, 53, 100, 56, 100, 102, 57, 102, 56, 48, 102, 55, 52, 57, 102, 100,
       52, 51, 49, 54, 99, 57, 54, 56, 49, 55, 49, 57, 101, 98, 55, 98, 97, 50, 57, 99,
       50, 52, 99, 51, 56, 51, 49, 49, 100, 48, 101, 57, 98, 98, 53, 54, 48, 52, 55, 48,
       50, 52, 97, 98, 57, 49>>,
       <<77, 68, 73, 122, 78, 68, 85, 50, 78, 122, 103, 53, 77, 68, 69, 120>>,
       <<1, 73, 222, 54, 16, 229, 209, 48, 55, 78, 252, 22, 28, 207, 127, 74, 28, 195, 16,
       151, 110, 167, 106, 136, 239, 52, 120, 63, 188, 186, 15, 48, 144, 10, 133, 14, 155,
       7, 135, 120, 40, 140, 159, 191, 120, 31, 28, 138, 237, 241, 97, 191, 178, 89, 228,
       1, 132, 161, 57, 190, 236, 196, 233, 81>>>>,
     <<<<55, 97, 100, 53, 100, 56, 100, 102, 57, 102, 56, 48, 102, 55, 52, 57, 102, 100,
       52, 51, 49, 54, 99, 57, 54, 56, 49, 55, 49, 57, 101, 98, 55, 98, 97, 50, 57, 99,
       50, 52, 99, 51, 56, 51, 49, 49, 100, 48, 101, 57, 98, 98, 53, 54, 48, 52, 55, 48,
       50, 52, 97, 98, 57, 49>>,
       <<77, 68, 89, 48, 77, 81>>,
       <<113, 14, 47, 61, 19, 224, 233, 106, 237, 222, 230, 163, 48, 99, 55, 113, 33, 188,
       85, 10, 79, 199, 202, 80, 159, 186, 214, 177, 67, 20, 94, 15, 7, 96, 172, 51, 77,
       125, 187, 150, 116, 123, 167, 195, 68, 72, 19, 17, 5, 245, 99, 254, 28, 224, 41,
       167, 25, 190, 210, 21, 102, 123, 89, 177>>>>,
     <<<<55, 97, 100, 53, 100, 56, 100, 102, 57, 102, 56, 48, 102, 55, 52, 57, 102, 100,
       52, 51, 49, 54, 99, 57, 54, 56, 49, 55, 49, 57, 101, 98, 55, 98, 97, 50, 57, 99,
       50, 52, 99, 51, 56, 51, 49, 49, 100, 48, 101, 57, 98, 98, 53, 54, 48, 52, 55, 48,
       50, 52, 97, 98, 57, 49>>,
       <<77, 68, 89, 48, 77, 84, 65, 119>>,
       <<152, 78, 119, 143, 97, 94, 253, 162, 195, 94, 104, 121, 212, 34, 139, 196, 219,
       26, 92, 101, 37, 45, 40, 143, 3, 10, 209, 178, 208, 86, 41, 72, 13, 103, 214, 82,
       130, 133, 147, 187, 13, 202, 125, 199, 177, 4, 232, 208, 196, 235, 166, 132, 27,
       21, 97, 54, 200, 156, 217, 217, 167, 236, 116, 106>>>>,
     <<<<55, 97, 100, 53, 100, 56, 100, 102, 57, 102, 56, 48, 102, 55, 52, 57, 102, 100,
       52, 51, 49, 54, 99, 57, 54, 56, 49, 55, 49, 57, 101, 98, 55, 98, 97, 50, 57, 99,
       50, 52, 99, 51, 56, 51, 49, 49, 100, 48, 101, 57, 98, 98, 53, 54, 48, 52, 55, 48,
       50, 52, 97, 98, 57, 49>>,
       <<77, 68, 89, 48, 77, 84, 69>>,
       <<154, 235, 153, 28, 62, 171, 255, 72, 236, 241, 58, 33, 65, 149, 201, 109, 22,
       197, 228, 89, 63, 242, 141, 96, 193, 95, 79, 180, 196, 92, 250, 127, 127, 118, 179,
       109, 91, 248, 119, 232, 97, 140, 212, 158, 55, 212, 196, 14, 168, 116, 26, 178,
       200, 149, 216, 102, 83, 26, 109, 72, 23, 65, 17, 250>>>>,
     <<<<55, 97, 100, 53, 100, 56, 100, 102, 57, 102, 56, 48, 102, 55, 52, 57, 102, 100,
       52, 51, 49, 54, 99, 57, 54, 56, 49, 55, 49, 57, 101, 98, 55, 98, 97, 50, 57, 99,
       50, 52, 99, 51, 56, 51, 49, 49, 100, 48, 101, 57, 98, 98, 53, 54, 48, 52, 55, 48,
       50, 52, 97, 98, 57, 49>>,
       <<77, 68, 89, 48, 77, 84, 69, 120>>,
       <<152, 250, 8, 125, 246, 29, 239, 52, 116, 240, 230, 64, 131, 154, 194, 3, 173, 48,
       234, 163, 41, 158, 164, 76, 133, 245, 121, 90, 5, 78, 17, 142, 0, 156, 233, 35, 81,
       88, 43, 77, 150, 44, 213, 240, 4, 83, 98, 204, 226, 85, 100, 165, 143, 188, 172,
       187, 231, 199, 235, 97, 75, 49, 194, 134>>>>,
     <<<<55, 97, 100, 53, 100, 56, 100, 102, 57, 102, 56, 48, 102, 55, 52, 57, 102, 100,
       52, 51, 49, 54, 99, 57, 54, 56, 49, 55, 49, 57, 101, 98, 55, 98, 97, 50, 57, 99,
       50, 52, 99, 51, 56, 51, 49, 49, 100, 48, 101, 57, 98, 98, 53, 54, 48, 52, 55, 48,
       50, 52, 97, 98, 57, 49>>,
       <<77, 68, 89, 48, 77, 84, 73>>,
       <<213, 4, 43, 98, 138, 21, 22, 182, 239, 21, 9, 63, 78, 145, 212, 55, 152, 223,
       195, 217, 100, 247, 76, 135, 213, 28, 156, 137, 128, 92, 12, 67, 86, 185, 118, 153,
       50, 136, 83, 23, 146, 135, 22, 21, 171, 184, 186, 153, 75, 170, 99, 208, 195, 8,
       194, 150, 144, 0, 29, 179, 99, 202, 98, 133>>>>,
     <<<<55, 97, 100, 53, 100, 56, 100, 102, 57, 102, 56, 48, 102, 55, 52, 57, 102, 100,
       52, 51, 49, 54, 99, 57, 54, 56, 49, 55, 49, 57, 101, 98, 55, 98, 97, 50, 57, 99,
       50, 52, 99, 51, 56, 51, 49, 49, 100, 48, 101, 57, 98, 98, 53, 54, 48, 52, 55, 48,
       50, 52, 97, 98, 57, 49>>,
       <<77, 68, 89, 48, 77, 103>>,
       <<99, 98, 119, 179, 137, 55, 58, 253, 241, 8, 40, 129, 0, 124, 226, 230, 188, 80,
       66, 69, 242, 235, 45, 221, 234, 157, 73, 105, 255, 231, 89, 116, 220, 228, 200, 35,
       92, 224, 131, 145, 13, 118, 251, 143, 240, 13, 204, 71, 149, 36, 78, 218, 25, 31,
       171, 76, 225, 4, 31, 242, 105, 171, 0, 119>>>>,
     <<<<55, 97, 100, 53, 100, 56, 100, 102, 57, 102, 56, 48, 102, 55, 52, 57, 102, 100,
       52, 51, 49, 54, 99, 57, 54, 56, 49, 55, 49, 57, 101, 98, 55, 98, 97, 50, 57, 99,
       50, 52, 99, 51, 56, 51, 49, 49, 100, 48, 101, 57, 98, 98, 53, 54, 48, 52, 55, 48,
       50, 52, 97, 98, 57, 49>>,
       <<77, 68, 89, 48, 77, 106, 77, 48, 78, 84, 89, 51, 79, 68, 107, 119, 77, 84, 69>>,
       <<241, 233, 111, 98, 150, 165, 197, 139, 140, 176, 64, 49, 214, 220, 142, 109, 9,
       48, 52, 87, 183, 160, 12, 169, 16, 243, 202, 255, 184, 76, 41, 239, 79, 198, 114,
       107, 66, 178, 50, 230, 230, 7, 175, 247, 146, 148, 33, 157, 251, 150, 99, 190, 107,
       162, 45, 6, 228, 206, 59, 185, 124, 69, 104, 178>>>>,
     <<<<55, 97, 100, 53, 100, 56, 100, 102, 57, 102, 56, 48, 102, 55, 52, 57, 102, 100,
       52, 51, 49, 54, 99, 57, 54, 56, 49, 55, 49, 57, 101, 98, 55, 98, 97, 50, 57, 99,
       50, 52, 99, 51, 56, 51, 49, 49, 100, 48, 101, 57, 98, 98, 53, 54, 48, 52, 55, 48,
       50, 52, 97, 98, 57, 49>>,
       <<77, 84, 65, 48, 101, 68, 107, 113, 77, 86, 90, 55, 78, 87, 120, 111, 77, 81>>,
       <<168, 98, 243, 145, 120, 85, 221, 203, 13, 156, 44, 175, 107, 61, 27, 145, 128,
       233, 49, 220, 157, 118, 244, 183, 40, 162, 185, 83, 111, 165, 198, 69, 76, 181, 68,
       243, 65, 113, 134, 253, 255, 55, 39, 76, 210, 75, 242, 157, 227, 103, 37, 82, 165,
       106, 224, 109, 53, 5, 94, 7, 135, 168, 248, 39>>>>,
     <<<<55, 97, 100, 53, 100, 56, 100, 102, 57, 102, 56, 48, 102, 55, 52, 57, 102, 100,
       52, 51, 49, 54, 99, 57, 54, 56, 49, 55, 49, 57, 101, 98, 55, 98, 97, 50, 57, 99,
       50, 52, 99, 51, 56, 51, 49, 49, 100, 48, 101, 57, 98, 98, 53, 54, 48, 52, 55, 48,
       50, 52, 97, 98, 57, 49>>,
       <<77, 84, 65, 48, 101, 68, 107, 113, 77, 86, 90, 55, 78, 87, 120, 111, 77, 84, 65,
       119>>,
       <<239, 67, 234, 254, 249, 95, 84, 212, 158, 148, 89, 35, 224, 130, 49, 219, 98,
       139, 182, 17, 158, 20, 107, 45, 84, 142, 42, 14, 175, 202, 152, 168, 215, 154, 107,
       253, 107, 77, 113, 44, 52, 34, 66, 84, 174, 170, 42, 103, 190, 108, 180, 44, 54,
       10, 168, 148, 53, 220, 89, 138, 245, 117, 124, 162>>>>,
     <<<<55, 97, 100, 53, 100, 56, 100, 102, 57, 102, 56, 48, 102, 55, 52, 57, 102, 100,
       52, 51, 49, 54, 99, 57, 54, 56, 49, 55, 49, 57, 101, 98, 55, 98, 97, 50, 57, 99,
       50, 52, 99, 51, 56, 51, 49, 49, 100, 48, 101, 57, 98, 98, 53, 54, 48, 52, 55, 48,
       50, 52, 97, 98, 57, 49>>,
       <<77, 84, 65, 48, 101, 68, 107, 113, 77, 86, 90, 55, 78, 87, 120, 111, 77, 84, 65,
       120>>,
       <<97, 90, 249, 52, 113, 252, 44, 147, 86, 196, 201, 157, 65, 161, 249, 175, 58,
       224, 240, 31, 199, 244, 30, 98, 233, 5, 78, 81, 250, 249, 179, 73, 121, 56, 62,
       213, 217, 25, 63, 61, 111, 102, 71, 210, 39, 77, 128, 101, 95, 178, 83, 63, 185,
       26, 242, 166, 76, 198, 145, 47, 179, 114, 78, 144>>>>,
     <<<<55, 97, 100, 53, 100, 56, 100, 102, 57, 102, 56, 48, 102, 55, 52, 57, 102, 100,
       52, 51, 49, 54, 99, 57, 54, 56, 49, 55, 49, 57, 101, 98, 55, 98, 97, 50, 57, 99,
       50, 52, 99, 51, 56, 51, 49, 49, 100, 48, 101, 57, 98, 98, 53, 54, 48, 52, 55, 48,
       50, 52, 97, 98, 57, 49>>,
       <<77, 84, 65, 48, 101, 68, 107, 113, 77, 86, 90, 55, 78, 87, 120, 111, 77, 84, 65,
       120, 77, 68, 65>>,
       <<38, 10, 15, 117, 116, 228, 169, 238, 253, 235, 88, 98, 144, 242, 22, 106, 30,
       162, 154, 78, 137, 127, 248, 99, 231, 190, 192, 116, 51, 137, 25, 228, 179, 59, 21,
       135, 250, 165, 133, 206, 250, 37, 176, 90, 32, 35, 43, 113, 80, 248, 18, 98, 141,
       39, 187, 93, 46, 123, 132, 99, 47, 220, 132, 245>>>>,
     <<<<55, 97, 100, 53, 100, 56, 100, 102, 57, 102, 56, 48, 102, 55, 52, 57, 102, 100,
       52, 51, 49, 54, 99, 57, 54, 56, 49, 55, 49, 57, 101, 98, 55, 98, 97, 50, 57, 99,
       50, 52, 99, 51, 56, 51, 49, 49, 100, 48, 101, 57, 98, 98, 53, 54, 48, 52, 55, 48,
       50, 52, 97, 98, 57, 49>>,
       <<77, 84, 65, 48, 101, 68, 107, 113, 77, 86, 90, 55, 78, 87, 120, 111, 77, 84, 69>>,
       <<72, 143, 157, 114, 105, 238, 5, 16, 159, 98, 211, 102, 194, 126, 127, 154, 253,
       31, 216, 160, 106, 27, 131, 25, 14, 223, 149, 216, 190, 228, 43, 20, 221, 73, 211,
       22, 91, 77, 178, 187, 205, 249, 168, 241, 6, 167, 49, 189, 186, 173, 203, 252, 61,
       196, 107, 209, 189, 172, 231, 190, 90, 3, 21, 209>>>>,
     <<<<55, 97, 100, 53, 100, 56, 100, 102, 57, 102, 56, 48, 102, 55, 52, 57, 102, 100,
       52, 51, 49, 54, 99, 57, 54, 56, 49, 55, 49, 57, 101, 98, 55, 98, 97, 50, 57, 99,
       50, 52, 99, 51, 56, 51, 49, 49, 100, 48, 101, 57, 98, 98, 53, 54, 48, 52, 55, 48,
       50, 52, 97, 98, 57, 49>>,
       <<77, 84, 65, 48, 101, 68, 107, 113, 77, 86, 90, 55, 78, 87, 120, 111, 77, 84, 69,
       119, 77, 65>>,
       <<39, 199, 232, 42, 100, 93, 210, 104, 148, 223, 96, 80, 230, 157, 68, 165, 178,
       130, 212, 41, 249, 222, 211, 248, 255, 23, 197, 9, 65, 183, 50, 212, 114, 77, 165,
       76, 35, 29, 103, 7, 158, 231, 102, 11, 244, 0, 148, 233, 250, 219, 74, 41, 253,
       165, 225, 253, 239, 196, 145, 100, 100, 169, 151, 183>>>>,
     <<<<55, 97, 100, 53, 100, 56, 100, 102, 57, 102, 56, 48, 102, 55, 52, 57, 102, 100,
       52, 51, 49, 54, 99, 57, 54, 56, 49, 55, 49, 57, 101, 98, 55, 98, 97, 50, 57, 99,
       50, 52, 99, 51, 56, 51, 49, 49, 100, 48, 101, 57, 98, 98, 53, 54, 48, 52, 55, 48,
       50, 52, 97, 98, 57, 49>>,
       <<77, 84, 65, 48, 101, 68, 107, 113, 77, 86, 90, 55, 78, 87, 120, 111, 77, 84, 69,
       120>>,
       <<123, 121, 84, 87, 146, 77, 97, 187, 230, 201, 144, 179, 166, 108, 133, 88, 204,
       160, 135, 96, 60, 90, 174, 25, 216, 111, 11, 108, 68, 44, 229, 246, 219, 47, 6, 96,
       237, 55, 81, 204, 162, 29, 38, 132, 52, 58, 21, 152, 175, 104, 115, 117, 170, 31,
       154, 66, 173, 181, 158, 184, 96, 211, 70, 10>>>>,
     <<<<55, 97, 100, 53, 100, 56, 100, 102, 57, 102, 56, 48, 102, 55, 52, 57, 102, 100,
       52, 51, 49, 54, 99, 57, 54, 56, 49, 55, 49, 57, 101, 98, 55, 98, 97, 50, 57, 99,
       50, 52, 99, 51, 56, 51, 49, 49, 100, 48, 101, 57, 98, 98, 53, 54, 48, 52, 55, 48,
       50, 52, 97, 98, 57, 49>>,
       <<77, 84, 65, 48, 101, 68, 107, 113, 77, 86, 90, 55, 78, 87, 120, 111, 77, 84, 73,
       120>>,
       <<141, 215, 92, 189, 138, 92, 36, 54, 220, 237, 41, 10, 177, 45, 6, 104, 244, 43,
       219, 139, 2, 164, 190, 219, 34, 186, 240, 148, 67, 131, 140, 137, 36, 6, 82, 149,
       95, 213, 225, 115, 66, 221, 89, 238, 9, 162, 91, 139, 114, 223, 54, 218, 79, 100,
       195, 151, 159, 92, 30, 186, 79, 95, 30, 37>>>>,
     <<<<55, 97, 100, 53, 100, 56, 100, 102, 57, 102, 56, 48, 102, 55, 52, 57, 102, 100,
       52, 51, 49, 54, 99, 57, 54, 56, 49, 55, 49, 57, 101, 98, 55, 98, 97, 50, 57, 99,
       50, 52, 99, 51, 56, 51, 49, 49, 100, 48, 101, 57, 98, 98, 53, 54, 48, 52, 55, 48,
       50, 52, 97, 98, 57, 49>>,
       <<77, 84, 65, 48, 101, 68, 107, 113, 77, 86, 90, 55, 78, 87, 120, 111, 77, 84, 77,
       120>>,
       <<156, 157, 179, 209, 83, 186, 55, 132, 11, 4, 127, 46, 147, 44, 147, 61, 128, 109,
       203, 176, 37, 165, 146, 121, 166, 130, 252, 217, 230, 34, 94, 204, 168, 249, 93,
       23, 204, 119, 177, 172, 42, 248, 131, 32, 62, 163, 103, 136, 24, 136, 142, 25, 225,
       145, 139, 222, 186, 5, 123, 108, 166, 150, 94, 107>>>>,
     <<<<55, 97, 100, 53, 100, 56, 100, 102, 57, 102, 56, 48, 102, 55, 52, 57, 102, 100,
       52, 51, 49, 54, 99, 57, 54, 56, 49, 55, 49, 57, 101, 98, 55, 98, 97, 50, 57, 99,
       50, 52, 99, 51, 56, 51, 49, 49, 100, 48, 101, 57, 98, 98, 53, 54, 48, 52, 55, 48,
       50, 52, 97, 98, 57, 49>>,
       <<77, 84, 65, 48, 101, 68, 107, 113, 77, 86, 90, 55, 78, 87, 120, 111, 77, 84, 81,
       120>>,
       <<235, 176, 188, 88, 100, 220, 101, 161, 19, 192, 26, 247, 128, 173, 169, 7, 107,
       193, 191, 229, 205, 86, 88, 12, 109, 138, 181, 12, 132, 32, 210, 144, 201, 151,
       201, 20, 205, 176, 16, 173, 102, 69, 62, 182, 112, 213, 0, 8, 123, 21, 146, 168,
       43, 36, 62, 208, 173, 102, 172, 72, 17, 224, 18, 169>>>>,
     <<<<55, 97, 100, 53, 100, 56, 100, 102, 57, 102, 56, 48, 102, 55, 52, 57, 102, 100,
       52, 51, 49, 54, 99, 57, 54, 56, 49, 55, 49, 57, 101, 98, 55, 98, 97, 50, 57, 99,
       50, 52, 99, 51, 56, 51, 49, 49, 100, 48, 101, 57, 98, 98, 53, 54, 48, 52, 55, 48,
       50, 52, 97, 98, 57, 49>>,
       <<77, 84, 65, 48, 101, 68, 107, 113, 77, 86, 90, 55, 78, 87, 120, 111, 77, 84, 85,
       120>>,
       <<37, 180, 172, 167, 27, 94, 31, 175, 177, 87, 210, 61, 252, 196, 252, 182, 215,
       200, 11, 132, 16, 36, 156, 155, 65, 55, 174, 209, 237, 108, 177, 96, 73, 141, 84,
       189, 17, 176, 155, 196, 155, 74, 241, 63, 230, 155, 138, 9, 40, 109, 129, 196, 98,
       195, 12, 5, 50, 25, 171, 225, 180, 124, 6, 232>>>>,
     <<<<55, 97, 100, 53, 100, 56, 100, 102, 57, 102, 56, 48, 102, 55, 52, 57, 102, 100,
       52, 51, 49, 54, 99, 57, 54, 56, 49, 55, 49, 57, 101, 98, 55, 98, 97, 50, 57, 99,
       50, 52, 99, 51, 56, 51, 49, 49, 100, 48, 101, 57, 98, 98, 53, 54, 48, 52, 55, 48,
       50, 52, 97, 98, 57, 49>>,
       <<77, 84, 65, 48, 101, 68, 107, 113, 77, 86, 90, 55, 78, 87, 120, 111, 77, 84, 89,
       120>>,
       <<67, 96, 183, 149, 80, 194, 136, 174, 50, 109, 125, 175, 205, 224, 131, 77, 114,
       165, 91, 138, 35, 111, 39, 241, 124, 218, 206, 214, 192, 218, 10, 65, 117, 209, 30,
       168, 13, 29, 7, 244, 5, 247, 93, 232, 190, 186, 149, 55, 252, 246, 251, 162, 148,
       239, 21, 179, 250, 224, 118, 225, 241, 193, 78, 190>>>>,
     <<<<55, 97, 100, 53, 100, 56, 100, 102, 57, 102, 56, 48, 102, 55, 52, 57, 102, 100,
       52, 51, 49, 54, 99, 57, 54, 56, 49, 55, 49, 57, 101, 98, 55, 98, 97, 50, 57, 99,
       50, 52, 99, 51, 56, 51, 49, 49, 100, 48, 101, 57, 98, 98, 53, 54, 48, 52, 55, 48,
       50, 52, 97, 98, 57, 49>>,
       <<77, 84, 65, 48, 101, 68, 107, 113, 77, 86, 90, 55, 78, 87, 120, 111, 77, 84, 99,
       120>>,
       <<134, 136, 41, 78, 31, 50, 8, 15, 127, 172, 55, 232, 67, 219, 47, 16, 12, 123,
       215, 46, 81, 200, 236, 3, 76, 229, 227, 156, 11, 207, 187, 230, 202, 82, 35, 120,
       155, 117, 208, 110, 103, 68, 16, 50, 74, 204, 11, 135, 229, 15, 53, 234, 229, 236,
       138, 142, 193, 28, 95, 253, 55, 246, 8, 132>>>>,
     <<<<55, 97, 100, 53, 100, 56, 100, 102, 57, 102, 56, 48, 102, 55, 52, 57, 102, 100,
       52, 51, 49, 54, 99, 57, 54, 56, 49, 55, 49, 57, 101, 98, 55, 98, 97, 50, 57, 99,
       50, 52, 99, 51, 56, 51, 49, 49, 100, 48, 101, 57, 98, 98, 53, 54, 48, 52, 55, 48,
       50, 52, 97, 98, 57, 49>>,
       <<77, 84, 65, 48, 101, 68, 107, 113, 77, 86, 90, 55, 78, 87, 120, 111, 77, 84, 103,
       120>>,
       <<43, 146, 199, 170, 185, 112, 125, 184, 77, 87, 222, 185, 137, 151, 163, 150, 29,
       63, 113, 221, 218, 72, 148, 86, 200, 217, 90, 67, 243, 239, 223, 67, 238, 33, 243,
       139, 245, 84, 62, 253, 182, 193, 203, 106, 55, 200, 207, 197, 45, 48, 69, 255, 136,
       30, 244, 171, 202, 248, 183, 98, 206, 81, 207, 69>>>>,
     <<<<55, 97, 100, 53, 100, 56, 100, 102, 57, 102, 56, 48, 102, 55, 52, 57, 102, 100,
       52, 51, 49, 54, 99, 57, 54, 56, 49, 55, 49, 57, 101, 98, 55, 98, 97, 50, 57, 99,
       50, 52, 99, 51, 56, 51, 49, 49, 100, 48, 101, 57, 98, 98, 53, 54, 48, 52, 55, 48,
       50, 52, 97, 98, 57, 49>>,
       <<77, 84, 65, 48, 101, 68, 107, 113, 77, 86, 90, 55, 78, 87, 120, 111, 77, 84, 107,
       120>>,
       <<153, 8, 90, 251, 219, 87, 99, 70, 40, 118, 243, 189, 187, 84, 25, 20, 252, 64,
       130, 202, 252, 0, 218, 136, 21, 96, 76, 126, 45, 20, 209, 166, 183, 19, 237, 38,
       41, 87, 207, 191, 167, 167, 132, 182, 145, 144, 110, 226, 109, 81, 189, 252, 3,
       235, 32, 8, 36, 62, 145, 96, 91, 249, 22, 99>>>>,
     <<<<55, 97, 100, 53, 100, 56, 100, 102, 57, 102, 56, 48, 102, 55, 52, 57, 102, 100,
       52, 51, 49, 54, 99, 57, 54, 56, 49, 55, 49, 57, 101, 98, 55, 98, 97, 50, 57, 99,
       50, 52, 99, 51, 56, 51, 49, 49, 100, 48, 101, 57, 98, 98, 53, 54, 48, 52, 55, 48,
       50, 52, 97, 98, 57, 49>>,
       <<77, 84, 65, 48, 101, 68, 107, 113, 77, 86, 90, 55, 78, 87, 120, 111, 77, 106, 65,
       120>>,
       <<241, 238, 232, 231, 89, 106, 92, 106, 112, 50, 220, 133, 31, 77, 77, 205, 146,
       107, 75, 118, 203, 77, 188, 163, 239, 42, 102, 127, 128, 203, 92, 103, 135, 243,
       154, 155, 151, 107, 202, 240, 156, 200, 114, 136, 144, 129, 71, 47, 245, 231, 28,
       207, 148, 90, 86, 175, 135, 40, 135, 208, 114, 245, 235, 20>>>>,
     <<<<55, 97, 100, 53, 100, 56, 100, 102, 57, 102, 56, 48, 102, 55, 52, 57, 102, 100,
       52, 51, 49, 54, 99, 57, 54, 56, 49, 55, 49, 57, 101, 98, 55, 98, 97, 50, 57, 99,
       50, 52, 99, 51, 56, 51, 49, 49, 100, 48, 101, 57, 98, 98, 53, 54, 48, 52, 55, 48,
       50, 52, 97, 98, 57, 49>>,
       <<77, 84, 65, 48, 101, 68, 107, 113, 77, 86, 90, 55, 78, 87, 120, 111, 77, 106,
       69>>,
       <<203, 74, 71, 105, 170, 88, 156, 30, 71, 195, 215, 146, 47, 180, 214, 163, 64,
       171, 201, 255, 84, 239, 193, 14, 175, 156, 144, 48, 4, 204, 179, 142, 108, 56, 163,
       109, 241, 192, 241, 145, 158, 177, 182, 197, 41, 137, 221, 13, 25, 24, 62, 169,
       181, 3, 77, 11, 32, 53, 177, 159, 18, 19, 182, 252>>>>,
     <<<<55, 97, 100, 53, 100, 56, 100, 102, 57, 102, 56, 48, 102, 55, 52, 57, 102, 100,
       52, 51, 49, 54, 99, 57, 54, 56, 49, 55, 49, 57, 101, 98, 55, 98, 97, 50, 57, 99,
       50, 52, 99, 51, 56, 51, 49, 49, 100, 48, 101, 57, 98, 98, 53, 54, 48, 52, 55, 48,
       50, 52, 97, 98, 57, 49>>,
       <<77, 84, 65, 48, 101, 68, 107, 113, 77, 86, 90, 55, 78, 87, 120, 111, 77, 106, 69,
       120>>,
       <<33, 105, 238, 94, 120, 180, 171, 166, 161, 139, 43, 122, 37, 189, 240, 215, 180,
       77, 122, 96, 112, 56, 237, 172, 27, 190, 150, 112, 45, 166, 240, 41, 79, 123, 115,
       10, 247, 114, 155, 225, 247, 165, 130, 78, 94, 247, 123, 35, 139, 231, 210, 7, 146,
       77, 26, 198, 109, 13, 60, 37, 231, 119, 48, 35>>>>,
     <<<<55, 97, 100, 53, 100, 56, 100, 102, 57, 102, 56, 48, 102, 55, 52, 57, 102, 100,
       52, 51, 49, 54, 99, 57, 54, 56, 49, 55, 49, 57, 101, 98, 55, 98, 97, 50, 57, 99,
       50, 52, 99, 51, 56, 51, 49, 49, 100, 48, 101, 57, 98, 98, 53, 54, 48, 52, 55, 48,
       50, 52, 97, 98, 57, 49>>,
       <<77, 84, 65, 48, 101, 68, 107, 113, 77, 86, 90, 55, 78, 87, 120, 111, 77, 106, 73,
       120>>,
       <<202, 221, 178, 62, 172, 134, 60, 100, 155, 73, 79, 196, 78, 214, 53, 185, 251,
       239, 117, 185, 173, 217, 176, 29, 39, 33, 38, 9, 188, 43, 8, 132, 181, 101, 120,
       37, 66, 13, 11, 201, 153, 151, 110, 59, 44, 163, 3, 53, 47, 200, 102, 8, 244, 78,
       136, 234, 65, 18, 185, 25, 179, 66, 233, 160>>>>,
     <<<<55, 97, 100, 53, 100, 56, 100, 102, 57, 102, 56, 48, 102, 55, 52, 57, 102, 100,
       52, 51, 49, 54, 99, 57, 54, 56, 49, 55, 49, 57, 101, 98, 55, 98, 97, 50, 57, 99,
       50, 52, 99, 51, 56, 51, 49, 49, 100, 48, 101, 57, 98, 98, 53, 54, 48, 52, 55, 48,
       50, 52, 97, 98, 57, 49>>,
       <<77, 84, 65, 48, 101, 68, 107, 113, 77, 86, 90, 55, 78, 87, 120, 111, 77, 106, 77,
       120>>,
       <<207, 149, 127, 110, 49, 221, 252, 143, 32, 197, 217, 28, 71, 231, 164, 11, 220,
       43, 17, 244, 9, 77, 65, 114, 38, 138, 199, 134, 49, 24, 232, 218, 145, 93, 57, 55,
       173, 138, 113, 255, 204, 101, 242, 115, 62, 240, 227, 18, 43, 208, 156, 231, 36,
       119, 66, 33, 153, 49, 11, 172, 199, 99, 168, 181>>>>,
     <<<<55, 97, 100, 53, 100, 56, 100, 102, 57, 102, 56, 48, 102, 55, 52, 57, 102, 100,
       52, 51, 49, 54, 99, 57, 54, 56, 49, 55, 49, 57, 101, 98, 55, 98, 97, 50, 57, 99,
       50, 52, 99, 51, 56, 51, 49, 49, 100, 48, 101, 57, 98, 98, 53, 54, 48, 52, 55, 48,
       50, 52, 97, 98, 57, 49>>,
       <<77, 84, 65, 48, 101, 68, 107, 113, 77, 86, 90, 55, 78, 87, 120, 111, 77, 106, 81,
       120>>,
       <<125, 126, 78, 57, 251, 74, 70, 4, 253, 43, 34, 180, 125, 241, 109, 27, 188, 58,
       133, 157, 177, 101, 224, 20, 171, 171, 107, 22, 238, 8, 56, 143, 189, 195, 19, 99,
       11, 207, 25, 31, 54, 253, 240, 15, 102, 234, 216, 211, 188, 78, 213, 30, 217, 238,
       51, 73, 81, 54, 72, 67, 24, 80, 125, 145>>>>,
     <<<<55, 97, 100, 53, 100, 56, 100, 102, 57, 102, 56, 48, 102, 55, 52, 57, 102, 100,
       52, 51, 49, 54, 99, 57, 54, 56, 49, 55, 49, 57, 101, 98, 55, 98, 97, 50, 57, 99,
       50, 52, 99, 51, 56, 51, 49, 49, 100, 48, 101, 57, 98, 98, 53, 54, 48, 52, 55, 48,
       50, 52, 97, 98, 57, 49>>,
       <<77, 84, 65, 48, 101, 68, 107, 113, 77, 86, 90, 55, 78, 87, 120, 111, 77, 106, 85,
       120>>,
       <<196, 16, 35, 160, 131, 167, 102, 180, 6, 125, 90, 197, 50, 178, 8, 36, 33, 75,
       105, 83, 204, 3, 219, 74, 189, 95, 91, 113, 68, 34, 109, 59, 65, 23, 127, 82, 36,
       234, 79, 183, 184, 122, 21, 71, 43, 243, 67, 250, 128, 196, 99, 45, 163, 87, 184,
       158, 63, 225, 180, 173, 42, 182, 80, 35>>>>,
     <<<<55, 97, 100, 53, 100, 56, 100, 102, 57, 102, 56, 48, 102, 55, 52, 57, 102, 100,
       52, 51, 49, 54, 99, 57, 54, 56, 49, 55, 49, 57, 101, 98, 55, 98, 97, 50, 57, 99,
       50, 52, 99, 51, 56, 51, 49, 49, 100, 48, 101, 57, 98, 98, 53, 54, 48, 52, 55, 48,
       50, 52, 97, 98, 57, 49>>,
       <<77, 84, 65, 48, 101, 68, 107, 113, 77, 86, 90, 55, 78, 87, 120, 111, 77, 106, 89,
       120>>,
       <<241, 129, 184, 226, 120, 153, 100, 171, 53, 130, 177, 6, 64, 18, 244, 145, 89,
       16, 235, 29, 168, 72, 178, 40, 221, 168, 91, 182, 178, 230, 77, 83, 116, 19, 110,
       70, 177, 190, 170, 136, 34, 151, 41, 129, 143, 254, 205, 154, 142, 216, 137, 28, 4,
       210, 190, 71, 53, 29, 88, 117, 3, 48, 230, 207>>>>,
     <<<<55, 97, 100, 53, 100, 56, 100, 102, 57, 102, 56, 48, 102, 55, 52, 57, 102, 100,
       52, 51, 49, 54, 99, 57, 54, 56, 49, 55, 49, 57, 101, 98, 55, 98, 97, 50, 57, 99,
       50, 52, 99, 51, 56, 51, 49, 49, 100, 48, 101, 57, 98, 98, 53, 54, 48, 52, 55, 48,
       50, 52, 97, 98, 57, 49>>,
       <<77, 84, 65, 48, 101, 68, 107, 113, 77, 86, 90, 55, 78, 87, 120, 111, 77, 106, 99,
       120>>,
       <<119, 165, 129, 130, 243, 193, 87, 169, 233, 92, 233, 229, 31, 33, 230, 248, 141,
       190, 17, 68, 29, 213, 235, 41, 124, 172, 222, 223, 194, 249, 199, 102, 45, 203,
       123, 27, 47, 19, 149, 253, 140, 224, 153, 243, 11, 122, 80, 228, 99, 176, 91, 85,
       18, 8, 102, 91, 199, 212, 37, 152, 4, 21, 98, 175>>>>,
     <<<<55, 97, 100, 53, 100, 56, 100, 102, 57, 102, 56, 48, 102, 55, 52, 57, 102, 100,
       52, 51, 49, 54, 99, 57, 54, 56, 49, 55, 49, 57, 101, 98, 55, 98, 97, 50, 57, 99,
       50, 52, 99, 51, 56, 51, 49, 49, 100, 48, 101, 57, 98, 98, 53, 54, 48, 52, 55, 48,
       50, 52, 97, 98, 57, 49>>,
       <<77, 84, 65, 48, 101, 68, 107, 113, 77, 86, 90, 55, 78, 87, 120, 111, 77, 106,
       103, 120>>,
       <<55, 108, 185, 232, 225, 195, 62, 27, 44, 167, 196, 126, 215, 154, 90, 210, 187,
       88, 197, 224, 235, 151, 225, 60, 250, 188, 76, 74, 224, 246, 69, 120, 0, 123, 53,
       37, 206, 21, 181, 208, 158, 33, 93, 139, 119, 250, 233, 19, 249, 26, 125, 9, 181,
       112, 167, 36, 142, 202, 206, 251, 31, 219, 239, 62>>>>,
     <<<<55, 97, 100, 53, 100, 56, 100, 102, 57, 102, 56, 48, 102, 55, 52, 57, 102, 100,
       52, 51, 49, 54, 99, 57, 54, 56, 49, 55, 49, 57, 101, 98, 55, 98, 97, 50, 57, 99,
       50, 52, 99, 51, 56, 51, 49, 49, 100, 48, 101, 57, 98, 98, 53, 54, 48, 52, 55, 48,
       50, 52, 97, 98, 57, 49>>,
       <<77, 84, 65, 48, 101, 68, 107, 113, 77, 86, 90, 55, 78, 87, 120, 111, 77, 106,
       107, 120>>,
       <<255, 175, 179, 84, 69, 55, 181, 20, 66, 180, 104, 158, 105, 230, 176, 211, 31,
       80, 244, 103, 249, 201, 67, 223, 240, 131, 180, 89, 230, 129, 148, 77, 165, 131,
       10, 61, 143, 240, 106, 84, 77, 253, 207, 125, 190, 65, 59, 228, 122, 49, 63, 164,
       178, 179, 2, 156, 95, 245, 3, 219, 133, 80, 178, 2>>>>,
     <<<<55, 97, 100, 53, 100, 56, 100, 102, 57, 102, 56, 48, 102, 55, 52, 57, 102, 100,
       52, 51, 49, 54, 99, 57, 54, 56, 49, 55, 49, 57, 101, 98, 55, 98, 97, 50, 57, 99,
       50, 52, 99, 51, 56, 51, 49, 49, 100, 48, 101, 57, 98, 98, 53, 54, 48, 52, 55, 48,
       50, 52, 97, 98, 57, 49>>,
       <<77, 84, 65, 48, 101, 68, 107, 113, 77, 86, 90, 55, 78, 87, 120, 111, 77, 122, 65,
       120>>,
       <<41, 216, 121, 249, 86, 71, 166, 162, 68, 226, 121, 1, 49, 205, 60, 8, 171, 211,
       86, 142, 205, 157, 151, 16, 45, 190, 55, 101, 245, 196, 22, 45, 133, 115, 132, 197,
       154, 2, 54, 185, 193, 134, 122, 134, 232, 233, 187, 153, 160, 136, 145, 68, 75,
       102, 158, 91, 224, 241, 107, 178, 248, 203, 175, 105>>>>,
     <<<<55, 97, 100, 53, 100, 56, 100, 102, 57, 102, 56, 48, 102, 55, 52, 57, 102, 100,
       52, 51, 49, 54, 99, 57, 54, 56, 49, 55, 49, 57, 101, 98, 55, 98, 97, 50, 57, 99,
       50, 52, 99, 51, 56, 51, 49, 49, 100, 48, 101, 57, 98, 98, 53, 54, 48, 52, 55, 48,
       50, 52, 97, 98, 57, 49>>,
       <<77, 84, 65, 48, 101, 68, 107, 113, 77, 86, 90, 55, 78, 87, 120, 111, 77, 122,
       69>>,
       <<140, 196, 249, 189, 111, 157, 211, 51, 248, 94, 142, 68, 54, 38, 15, 49, 40, 26,
       9, 157, 81, 145, 235, 121, 203, 92, 18, 199, 31, 61, 55, 145, 9, 176, 133, 102, 22,
       179, 14, 61, 153, 175, 222, 162, 70, 218, 124, 170, 41, 39, 69, 117, 108, 192, 39,
       172, 112, 124, 239, 22, 156, 26, 150, 190>>>>,
     <<<<55, 97, 100, 53, 100, 56, 100, 102, 57, 102, 56, 48, 102, 55, 52, 57, 102, 100,
       52, 51, 49, 54, 99, 57, 54, 56, 49, 55, 49, 57, 101, 98, 55, 98, 97, 50, 57, 99,
       50, 52, 99, 51, 56, 51, 49, 49, 100, 48, 101, 57, 98, 98, 53, 54, 48, 52, 55, 48,
       50, 52, 97, 98, 57, 49>>,
       <<77, 84, 65, 48, 101, 68, 107, 113, 77, 86, 90, 55, 78, 87, 120, 111, 77, 122, 69,
       120>>,
       <<126, 53, 80, 245, 61, 67, 145, 112, 214, 57, 134, 144, 250, 237, 104, 201, 81,
       99, 66, 187, 99, 33, 147, 138, 155, 116, 203, 139, 27, 187, 133, 166, 186, 102, 64,
       102, 75, 153, 83, 130, 122, 173, 156, 133, 63, 26, 99, 59, 119, 111, 162, 158, 54,
       163, 176, 150, 56, 81, 155, 47, 51, 66, 165, 11>>>>,
     <<<<55, 97, 100, 53, 100, 56, 100, 102, 57, 102, 56, 48, 102, 55, 52, 57, 102, 100,
       52, 51, 49, 54, 99, 57, 54, 56, 49, 55, 49, 57, 101, 98, 55, 98, 97, 50, 57, 99,
       50, 52, 99, 51, 56, 51, 49, 49, 100, 48, 101, 57, 98, 98, 53, 54, 48, 52, 55, 48,
       50, 52, 97, 98, 57, 49>>,
       <<77, 84, 65, 48, 101, 68, 107, 113, 77, 86, 90, 55, 78, 87, 120, 111, 77, 122, 73,
       120>>,
       <<159, 59, 103, 42, 251, 126, 177, 90, 255, 200, 143, 98, 15, 182, 203, 98, 84,
       108, 75, 11, 237, 130, 1, 35, 213, 185, 13, 252, 173, 107, 143, 63, 169, 248, 140,
       181, 41, 133, 232, 137, 79, 209, 184, 236, 173, 116, 106, 47, 243, 99, 102, 49, 84,
       116, 100, 116, 221, 126, 10, 100, 16, 190, 222, 136>>>>,
     <<<<55, 97, 100, 53, 100, 56, 100, 102, 57, 102, 56, 48, 102, 55, 52, 57, 102, 100,
       52, 51, 49, 54, 99, 57, 54, 56, 49, 55, 49, 57, 101, 98, 55, 98, 97, 50, 57, 99,
       50, 52, 99, 51, 56, 51, 49, 49, 100, 48, 101, 57, 98, 98, 53, 54, 48, 52, 55, 48,
       50, 52, 97, 98, 57, 49>>,
       <<77, 84, 65, 48, 101, 68, 107, 113, 77, 86, 90, 55, 78, 87, 120, 111, 77, 122, 77,
       120>>,
       <<109, 135, 21, 240, 201, 82, 227, 22, 223, 143, 250, 89, 67, 160, 5, 111, 226,
       248, 110, 22, 3, 188, 186, 180, 81, 136, 238, 124, 76, 224, 186, 195, 78, 239, 124,
       191, 185, 65, 155, 35, 176, 125, 182, 117, 106, 45, 100, 231, 138, 242, 178, 132,
       35, 208, 74, 198, 71, 212, 247, 215, 105, 19, 14, 80>>>>,
     <<<<55, 97, 100, 53, 100, 56, 100, 102, 57, 102, 56, 48, 102, 55, 52, 57, 102, 100,
       52, 51, 49, 54, 99, 57, 54, 56, 49, 55, 49, 57, 101, 98, 55, 98, 97, 50, 57, 99,
       50, 52, 99, 51, 56, 51, 49, 49, 100, 48, 101, 57, 98, 98, 53, 54, 48, 52, 55, 48,
       50, 52, 97, 98, 57, 49>>,
       <<77, 84, 65, 48, 101, 68, 107, 113, 77, 86, 90, 55, 78, 87, 120, 111, 77, 122, 81,
       120>>,
       <<168, 11, 32, 213, 200, 237, 113, 106, 131, 136, 103, 20, 159, 87, 86, 218, 16,
       103, 245, 229, 34, 165, 16, 228, 51, 23, 26, 193, 120, 117, 228, 108, 162, 223,
       187, 224, 126, 182, 250, 165, 232, 119, 83, 187, 116, 202, 42, 211, 252, 100, 112,
       31, 51, 68, 70, 0, 150, 195, 190, 242, 76, 123, 20, 168>>>>,
     <<<<55, 97, 100, 53, 100, 56, 100, 102, 57, 102, 56, 48, 102, 55, 52, 57, 102, 100,
       52, 51, 49, 54, 99, 57, 54, 56, 49, 55, 49, 57, 101, 98, 55, 98, 97, 50, 57, 99,
       50, 52, 99, 51, 56, 51, 49, 49, 100, 48, 101, 57, 98, 98, 53, 54, 48, 52, 55, 48,
       50, 52, 97, 98, 57, 49>>,
       <<77, 84, 65, 48, 101, 68, 107, 113, 77, 86, 90, 55, 78, 87, 120, 111, 77, 122, 85,
       120>>,
       <<216, 23, 15, 0, 102, 127, 224, 44, 59, 238, 73, 83, 225, 158, 163, 227, 44, 198,
       113, 92, 211, 23, 106, 138, 78, 69, 25, 4, 145, 104, 195, 26, 174, 16, 213, 111,
       93, 96, 204, 70, 190, 254, 153, 172, 116, 22, 184, 127, 17, 205, 9, 63, 70, 171,
       135, 116, 160, 178, 84, 44, 78, 74, 145, 181>>>>,
     <<<<55, 97, 100, 53, 100, 56, 100, 102, 57, 102, 56, 48, 102, 55, 52, 57, 102, 100,
       52, 51, 49, 54, 99, 57, 54, 56, 49, 55, 49, 57, 101, 98, 55, 98, 97, 50, 57, 99,
       50, 52, 99, 51, 56, 51, 49, 49, 100, 48, 101, 57, 98, 98, 53, 54, 48, 52, 55, 48,
       50, 52, 97, 98, 57, 49>>,
       <<77, 84, 65, 48, 101, 68, 107, 113, 77, 86, 90, 55, 78, 87, 120, 111, 77, 122, 89,
       120>>,
       <<21, 29, 43, 30, 89, 84, 9, 18, 252, 106, 111, 106, 97, 118, 244, 63, 52, 75, 130,
       147, 18, 72, 55, 178, 91, 84, 120, 7, 238, 46, 236, 137, 1, 231, 249, 115, 55, 54,
       11, 151, 213, 90, 38, 15, 232, 107, 8, 223, 47, 154, 114, 245, 234, 35, 175, 227,
       135, 51, 41, 86, 121, 215, 81, 6>>>>,
     <<<<55, 97, 100, 53, 100, 56, 100, 102, 57, 102, 56, 48, 102, 55, 52, 57, 102, 100,
       52, 51, 49, 54, 99, 57, 54, 56, 49, 55, 49, 57, 101, 98, 55, 98, 97, 50, 57, 99,
       50, 52, 99, 51, 56, 51, 49, 49, 100, 48, 101, 57, 98, 98, 53, 54, 48, 52, 55, 48,
       50, 52, 97, 98, 57, 49>>,
       <<77, 84, 65, 48, 101, 68, 107, 113, 77, 86, 90, 55, 78, 87, 120, 111, 77, 122, 99,
       120>>,
       <<177, 160, 81, 153, 110, 3, 81, 225, 110, 107, 115, 73, 134, 211, 183, 40, 75,
       150, 233, 141, 32, 157, 239, 212, 194, 234, 223, 252, 244, 69, 48, 109, 185, 33,
       197, 113, 136, 18, 203, 125, 147, 114, 44, 137, 51, 61, 250, 247, 19, 115, 158,
       209, 170, 191, 236, 249, 125, 73, 138, 101, 25, 91, 208, 252>>>>,
     <<<<55, 97, 100, 53, 100, 56, 100, 102, 57, 102, 56, 48, 102, 55, 52, 57, 102, 100,
       52, 51, 49, 54, 99, 57, 54, 56, 49, 55, 49, 57, 101, 98, 55, 98, 97, 50, 57, 99,
       50, 52, 99, 51, 56, 51, 49, 49, 100, 48, 101, 57, 98, 98, 53, 54, 48, 52, 55, 48,
       50, 52, 97, 98, 57, 49>>,
       <<77, 84, 65, 48, 101, 68, 107, 113, 77, 86, 90, 55, 78, 87, 120, 111, 77, 122,
       103, 120>>,
       <<35, 106, 95, 53, 53, 84, 126, 118, 20, 80, 45, 36, 108, 108, 156, 90, 184, 128,
       125, 78, 10, 213, 27, 11, 112, 119, 56, 211, 129, 192, 113, 197, 140, 249, 32, 204,
       29, 131, 35, 137, 99, 86, 118, 52, 14, 160, 162, 170, 91, 247, 221, 153, 60, 3, 39,
       13, 181, 89, 102, 98, 252, 192, 186, 117>>>>,
     <<<<55, 97, 100, 53, 100, 56, 100, 102, 57, 102, 56, 48, 102, 55, 52, 57, 102, 100,
       52, 51, 49, 54, 99, 57, 54, 56, 49, 55, 49, 57, 101, 98, 55, 98, 97, 50, 57, 99,
       50, 52, 99, 51, 56, 51, 49, 49, 100, 48, 101, 57, 98, 98, 53, 54, 48, 52, 55, 48,
       50, 52, 97, 98, 57, 49>>,
       <<77, 84, 65, 48, 101, 68, 107, 113, 77, 86, 90, 55, 78, 87, 120, 111, 77, 122,
       107, 120>>,
       <<42, 114, 154, 86, 2, 5, 208, 228, 192, 252, 169, 196, 234, 137, 32, 90, 54, 230,
       67, 44, 127, 165, 90, 64, 20, 181, 164, 9, 149, 18, 232, 150, 12, 75, 25, 0, 204,
       217, 142, 42, 131, 182, 205, 245, 45, 94, 211, 252, 41, 216, 218, 161, 37, 236,
       223, 168, 147, 212, 104, 47, 25, 222, 121, 179>>>>,
     <<<<55, 97, 100, 53, 100, 56, 100, 102, 57, 102, 56, 48, 102, 55, 52, 57, 102, 100,
       52, 51, 49, 54, 99, 57, 54, 56, 49, 55, 49, 57, 101, 98, 55, 98, 97, 50, 57, 99,
       50, 52, 99, 51, 56, 51, 49, 49, 100, 48, 101, 57, 98, 98, 53, 54, 48, 52, 55, 48,
       50, 52, 97, 98, 57, 49>>,
       <<77, 84, 65, 48, 101, 68, 107, 113, 77, 86, 90, 55, 78, 87, 120, 111, 78, 68, 65,
       120>>,
       <<17, 170, 220, 132, 246, 140, 59, 170, 252, 160, 153, 111, 135, 254, 164, 200,
       100, 254, 144, 27, 5, 147, 166, 142, 51, 180, 167, 1, 249, 151, 174, 166, 178, 169,
       20, 168, 216, 194, 93, 232, 222, 248, 171, 26, 197, 254, 109, 154, 177, 208, 193,
       244, 80, 161, 153, 173, 196, 104, 179, 204, 171, 67, 199, 158>>>>,
     <<<<55, 97, 100, 53, 100, 56, 100, 102, 57, 102, 56, 48, 102, 55, 52, 57, 102, 100,
       52, 51, 49, 54, 99, 57, 54, 56, 49, 55, 49, 57, 101, 98, 55, 98, 97, 50, 57, 99,
       50, 52, 99, 51, 56, 51, 49, 49, 100, 48, 101, 57, 98, 98, 53, 54, 48, 52, 55, 48,
       50, 52, 97, 98, 57, 49>>,
       <<77, 84, 65, 48, 101, 68, 107, 113, 77, 86, 90, 55, 78, 87, 120, 111, 78, 68, 69>>,
       <<152, 230, 7, 238, 160, 242, 179, 216, 76, 173, 222, 79, 157, 4, 252, 38, 104, 59,
       73, 160, 93, 2, 94, 13, 99, 193, 203, 245, 159, 168, 240, 85, 172, 99, 171, 154,
       198, 217, 20, 20, 195, 2, 255, 33, 47, 0, 255, 134, 153, 145, 106, 21, 97, 122,
       123, 181, 84, 126, 198, 75, 111, 192, 252, 213>>>>,
     <<<<55, 97, 100, 53, 100, 56, 100, 102, 57, 102, 56, 48, 102, 55, 52, 57, 102, 100,
       52, 51, 49, 54, 99, 57, 54, 56, 49, 55, 49, 57, 101, 98, 55, 98, 97, 50, 57, 99,
       50, 52, 99, 51, 56, 51, 49, 49, 100, 48, 101, 57, 98, 98, 53, 54, 48, 52, 55, 48,
       50, 52, 97, 98, 57, 49>>,
       <<77, 84, 65, 48, 101, 68, 107, 113, 77, 86, 90, 55, 78, 87, 120, 111, 78, 68, 69,
       120>>,
       <<160, 81, 137, 98, 254, 89, 203, 143, 69, 144, 17, 143, 220, 193, 255, 253, 61,
       21, 96, 37, 92, 93, 236, 156, 39, 150, 17, 189, 40, 85, 220, 15, 123, 80, 54, 102,
       118, 168, 91, 103, 20, 113, 7, 243, 231, 170, 201, 42, 244, 17, 34, 95, 71, 105,
       152, 76, 215, 102, 249, 216, 61, 229, 245, 208>>>>,
     <<<<55, 97, 100, 53, 100, 56, 100, 102, 57, 102, 56, 48, 102, 55, 52, 57, 102, 100,
       52, 51, 49, 54, 99, 57, 54, 56, 49, 55, 49, 57, 101, 98, 55, 98, 97, 50, 57, 99,
       50, 52, 99, 51, 56, 51, 49, 49, 100, 48, 101, 57, 98, 98, 53, 54, 48, 52, 55, 48,
       50, 52, 97, 98, 57, 49>>,
       <<77, 84, 65, 48, 101, 68, 107, 113, 77, 86, 90, 55, 78, 87, 120, 111, 78, 68, 73,
       120>>,
       <<123, 146, 47, 31, 17, 204, 134, 48, 104, 95, 58, 243, 225, 21, 115, 201, 248,
       220, 36, 133, 88, 73, 135, 178, 25, 255, 6, 46, 123, 227, 202, 163, 237, 22, 85,
       162, 21, 199, 106, 118, 24, 57, 189, 166, 101, 189, 180, 95, 23, 0, 196, 28, 29,
       220, 226, 17, 239, 73, 198, 37, 66, 145, 235, 147>>>>,
     <<<<55, 97, 100, 53, 100, 56, 100, 102, 57, 102, 56, 48, 102, 55, 52, 57, 102, 100,
       52, 51, 49, 54, 99, 57, 54, 56, 49, 55, 49, 57, 101, 98, 55, 98, 97, 50, 57, 99,
       50, 52, 99, 51, 56, 51, 49, 49, 100, 48, 101, 57, 98, 98, 53, 54, 48, 52, 55, 48,
       50, 52, 97, 98, 57, 49>>,
       <<77, 84, 65, 48, 101, 68, 107, 113, 77, 86, 90, 55, 78, 87, 120, 111, 78, 68, 77,
       120>>,
       <<28, 187, 131, 29, 242, 30, 165, 21, 158, 187, 179, 175, 155, 219, 103, 83, 56,
       155, 59, 97, 234, 196, 39, 244, 2, 229, 162, 133, 186, 106, 202, 151, 0, 229, 74,
       169, 186, 59, 214, 35, 230, 34, 144, 173, 111, 1, 165, 85, 40, 245, 29, 231, 23,
       28, 161, 178, 67, 95, 55, 152, 28, 55, 129, 63>>>>,
     <<<<55, 97, 100, 53, 100, 56, 100, 102, 57, 102, 56, 48, 102, 55, 52, 57, 102, 100,
       52, 51, 49, 54, 99, 57, 54, 56, 49, 55, 49, 57, 101, 98, 55, 98, 97, 50, 57, 99,
       50, 52, 99, 51, 56, 51, 49, 49, 100, 48, 101, 57, 98, 98, 53, 54, 48, 52, 55, 48,
       50, 52, 97, 98, 57, 49>>,
       <<77, 84, 65, 48, 101, 68, 107, 113, 77, 86, 90, 55, 78, 87, 120, 111, 78, 68, 81,
       120>>,
       <<198, 242, 110, 118, 169, 175, 216, 211, 138, 32, 192, 115, 73, 168, 18, 76, 75,
       159, 172, 60, 93, 20, 209, 108, 156, 69, 210, 115, 167, 151, 59, 79, 42, 147, 5,
       114, 180, 164, 39, 209, 208, 220, 15, 157, 103, 243, 94, 163, 132, 244, 197, 78,
       171, 67, 74, 39, 198, 8, 130, 88, 94, 19, 60, 15>>>>,
     <<<<55, 97, 100, 53, 100, 56, 100, 102, 57, 102, 56, 48, 102, 55, 52, 57, 102, 100,
       52, 51, 49, 54, 99, 57, 54, 56, 49, 55, 49, 57, 101, 98, 55, 98, 97, 50, 57, 99,
       50, 52, 99, 51, 56, 51, 49, 49, 100, 48, 101, 57, 98, 98, 53, 54, 48, 52, 55, 48,
       50, 52, 97, 98, 57, 49>>,
       <<77, 84, 65, 48, 101, 68, 107, 113, 77, 86, 90, 55, 78, 87, 120, 111, 78, 68, 85,
       120>>,
       <<3, 55, 39, 233, 130, 19, 123, 136, 151, 45, 226, 202, 250, 158, 140, 188, 139,
       245, 121, 39, 6, 174, 233, 137, 230, 40, 239, 174, 217, 139, 90, 244, 235, 157,
       210, 117, 59, 231, 66, 172, 192, 124, 173, 95, 125, 213, 252, 203, 178, 147, 232,
       175, 164, 85, 84, 10, 98, 241, 177, 220, 123, 83, 246, 146>>>>,
     <<<<55, 97, 100, 53, 100, 56, 100, 102, 57, 102, 56, 48, 102, 55, 52, 57, 102, 100,
       52, 51, 49, 54, 99, 57, 54, 56, 49, 55, 49, 57, 101, 98, 55, 98, 97, 50, 57, 99,
       50, 52, 99, 51, 56, 51, 49, 49, 100, 48, 101, 57, 98, 98, 53, 54, 48, 52, 55, 48,
       50, 52, 97, 98, 57, 49>>,
       <<77, 84, 65, 48, 101, 68, 107, 113, 77, 86, 90, 55, 78, 87, 120, 111, 78, 68, 89,
       120>>,
       <<76, 121, 244, 61, 15, 113, 105, 48, 122, 178, 36, 162, 190, 74, 253, 205, 82,
       122, 176, 204, 96, 182, 235, 58, 240, 72, 151, 82, 197, 184, 211, 114, 146, 210,
       241, 108, 209, 203, 230, 145, 171, 144, 105, 30, 215, 42, 195, 81, 191, 74, 108,
       19, 171, 222, 179, 147, 33, 116, 125, 87, 209, 240, 133, 101>>>>,
     <<<<55, 97, 100, 53, 100, 56, 100, 102, 57, 102, 56, 48, 102, 55, 52, 57, 102, 100,
       52, 51, 49, 54, 99, 57, 54, 56, 49, 55, 49, 57, 101, 98, 55, 98, 97, 50, 57, 99,
       50, 52, 99, 51, 56, 51, 49, 49, 100, 48, 101, 57, 98, 98, 53, 54, 48, 52, 55, 48,
       50, 52, 97, 98, 57, 49>>,
       <<77, 84, 65, 48, 101, 68, 107, 113, 77, 86, 90, 55, 78, 87, 120, 111, 78, 68, 99,
       120>>,
       <<51, 25, 218, 220, 236, 181, 159, 45, 160, 242, 202, 226, 137, 196, 121, 47, 132,
       143, 248, 24, 90, 223, 42, 197, 102, 113, 141, 8, 161, 240, 69, 248, 174, 40, 204,
       79, 36, 196, 216, 111, 39, 192, 251, 185, 182, 4, 246, 178, 20, 212, 136, 19, 236,
       101, 247, 104, 90, 152, 244, 116, 149, 229, 134, 85>>>>,
     <<<<55, 97, 100, 53, 100, 56, 100, 102, 57, 102, 56, 48, 102, 55, 52, 57, 102, 100,
       52, 51, 49, 54, 99, 57, 54, 56, 49, 55, 49, 57, 101, 98, 55, 98, 97, 50, 57, 99,
       50, 52, 99, 51, 56, 51, 49, 49, 100, 48, 101, 57, 98, 98, 53, 54, 48, 52, 55, 48,
       50, 52, 97, 98, 57, 49>>,
       <<77, 84, 65, 48, 101, 68, 107, 113, 77, 86, 90, 55, 78, 87, 120, 111, 78, 68, 103,
       120>>,
       <<172, 170, 178, 61, 148, 235, 217, 147, 156, 146, 97, 185, 161, 36, 209, 122, 72,
       116, 71, 249, 99, 114, 241, 157, 198, 41, 21, 65, 156, 99, 253, 252, 124, 0, 244,
       176, 146, 31, 66, 193, 174, 99, 213, 105, 13, 105, 135, 33, 172, 59, 238, 173, 173,
       89, 218, 100, 230, 120, 28, 95, 178, 176, 28, 32>>>>,
     <<<<55, 97, 100, 53, 100, 56, 100, 102, 57, 102, 56, 48, 102, 55, 52, 57, 102, 100,
       52, 51, 49, 54, 99, 57, 54, 56, 49, 55, 49, 57, 101, 98, 55, 98, 97, 50, 57, 99,
       50, 52, 99, 51, 56, 51, 49, 49, 100, 48, 101, 57, 98, 98, 53, 54, 48, 52, 55, 48,
       50, 52, 97, 98, 57, 49>>,
       <<77, 84, 65, 48, 101, 68, 107, 113, 77, 86, 90, 55, 78, 87, 120, 111, 78, 68, 107,
       120>>,
       <<161, 89, 46, 246, 112, 217, 35, 159, 207, 142, 173, 172, 167, 229, 151, 77, 188,
       8, 201, 118, 154, 141, 246, 162, 93, 43, 174, 144, 119, 156, 252, 80, 168, 195,
       202, 101, 138, 13, 127, 226, 64, 140, 71, 223, 16, 98, 145, 135, 98, 73, 241, 6,
       25, 229, 70, 36, 136, 37, 67, 236, 43, 200, 155, 243>>>>,
     <<<<55, 97, 100, 53, 100, 56, 100, 102, 57, 102, 56, 48, 102, 55, 52, 57, 102, 100,
       52, 51, 49, 54, 99, 57, 54, 56, 49, 55, 49, 57, 101, 98, 55, 98, 97, 50, 57, 99,
       50, 52, 99, 51, 56, 51, 49, 49, 100, 48, 101, 57, 98, 98, 53, 54, 48, 52, 55, 48,
       50, 52, 97, 98, 57, 49>>,
       <<77, 84, 65, 48, 101, 68, 107, 113, 77, 86, 90, 55, 78, 87, 120, 111, 78, 84, 65,
       120>>,
       <<153, 93, 7, 14, 181, 40, 181, 99, 53, 72, 159, 252, 183, 116, 129, 78, 39, 87,
       20, 12, 110, 191, 95, 239, 250, 74, 169, 186, 35, 179, 9, 28, 89, 222, 123, 26,
       124, 45, 101, 195, 158, 131, 17, 162, 48, 211, 27, 255, 195, 118, 247, 164, 237,
       21, 87, 246, 184, 215, 106, 57, 221, 96, 57, 91>>>>,
     <<<<55, 97, 100, 53, 100, 56, 100, 102, 57, 102, 56, 48, 102, 55, 52, 57, 102, 100,
       52, 51, 49, 54, 99, 57, 54, 56, 49, 55, 49, 57, 101, 98, 55, 98, 97, 50, 57, 99,
       50, 52, 99, 51, 56, 51, 49, 49, 100, 48, 101, 57, 98, 98, 53, 54, 48, 52, 55, 48,
       50, 52, 97, 98, 57, 49>>,
       <<77, 84, 65, 48, 101, 68, 107, 113, 77, 86, 90, 55, 78, 87, 120, 111, 78, 84, 69>>,
       <<52, 149, 217, 5, 169, 183, 49, 71, 89, 189, 223, 46, 239, 54, 123, 176, 125, 50,
       226, 218, 46, 205, 171, 68, 169, 16, 160, 38, 144, 47, 169, 221, 102, 124, 78, 82,
       182, 181, 186, 84, 9, 168, 219, 9, 128, 146, 190, 114, 168, 7, 160, 40, 7, 101,
       106, 31, 220, 110, 184, 203, 22, 161, 156, 43>>>>,
     <<<<55, 97, 100, 53, 100, 56, 100, 102, 57, 102, 56, 48, 102, 55, 52, 57, 102, 100,
       52, 51, 49, 54, 99, 57, 54, 56, 49, 55, 49, 57, 101, 98, 55, 98, 97, 50, 57, 99,
       50, 52, 99, 51, 56, 51, 49, 49, 100, 48, 101, 57, 98, 98, 53, 54, 48, 52, 55, 48,
       50, 52, 97, 98, 57, 49>>,
       <<77, 84, 65, 48, 101, 68, 107, 113, 77, 86, 90, 55, 78, 87, 120, 111, 78, 84, 69,
       120>>,
       <<45, 113, 222, 80, 226, 8, 78, 182, 70, 95, 112, 81, 140, 252, 58, 15, 140, 58,
       197, 162, 129, 200, 223, 255, 206, 3, 174, 167, 0, 166, 93, 157, 250, 184, 140, 62,
       104, 82, 119, 190, 22, 60, 180, 13, 141, 191, 204, 232, 117, 247, 130, 76, 158,
       253, 242, 27, 68, 225, 22, 221, 65, 38, 85, 196>>>>,
     <<<<55, 97, 100, 53, 100, 56, 100, 102, 57, 102, 56, 48, 102, 55, 52, 57, 102, 100,
       52, 51, 49, 54, 99, 57, 54, 56, 49, 55, 49, 57, 101, 98, 55, 98, 97, 50, 57, 99,
       50, 52, 99, 51, 56, 51, 49, 49, 100, 48, 101, 57, 98, 98, 53, 54, 48, 52, 55, 48,
       50, 52, 97, 98, 57, 49>>,
       <<77, 84, 65, 48, 101, 68, 107, 113, 77, 86, 90, 55, 78, 87, 120, 111, 78, 84, 73,
       120>>,
       <<240, 212, 172, 1, 171, 182, 74, 112, 92, 204, 124, 10, 222, 80, 47, 246, 110, 29,
       127, 74, 224, 25, 31, 196, 229, 89, 225, 13, 116, 128, 48, 95, 3, 251, 250, 77,
       163, 3, 178, 32, 207, 198, 1, 205, 91, 110, 50, 73, 55, 66, 109, 175, 36, 177, 25,
       121, 38, 156, 15, 187, 194, 192, 42, 131>>>>,
     <<<<55, 97, 100, 53, 100, 56, 100, 102, 57, 102, 56, 48, 102, 55, 52, 57, 102, 100,
       52, 51, 49, 54, 99, 57, 54, 56, 49, 55, 49, 57, 101, 98, 55, 98, 97, 50, 57, 99,
       50, 52, 99, 51, 56, 51, 49, 49, 100, 48, 101, 57, 98, 98, 53, 54, 48, 52, 55, 48,
       50, 52, 97, 98, 57, 49>>,
       <<77, 84, 65, 48, 101, 68, 107, 113, 77, 86, 90, 55, 78, 87, 120, 111, 78, 84, 77,
       120>>,
       <<172, 157, 62, 243, 196, 55, 146, 156, 62, 126, 126, 87, 37, 130, 9, 236, 40, 109,
       133, 139, 168, 95, 216, 190, 7, 136, 130, 90, 115, 104, 252, 185, 70, 22, 182, 67,
       63, 198, 27, 126, 212, 218, 46, 133, 49, 214, 64, 223, 235, 67, 241, 103, 224, 44,
       141, 17, 55, 20, 142, 244, 126, 153, 113, 190>>>>,
     <<<<55, 97, 100, 53, 100, 56, 100, 102, 57, 102, 56, 48, 102, 55, 52, 57, 102, 100,
       52, 51, 49, 54, 99, 57, 54, 56, 49, 55, 49, 57, 101, 98, 55, 98, 97, 50, 57, 99,
       50, 52, 99, 51, 56, 51, 49, 49, 100, 48, 101, 57, 98, 98, 53, 54, 48, 52, 55, 48,
       50, 52, 97, 98, 57, 49>>,
       <<77, 84, 65, 48, 101, 68, 107, 113, 77, 86, 90, 55, 78, 87, 120, 111, 78, 84, 81,
       120>>,
       <<207, 92, 59, 53, 14, 139, 32, 164, 34, 193, 67, 226, 148, 198, 175, 208, 249, 41,
       6, 29, 45, 64, 55, 206, 60, 21, 84, 115, 233, 56, 196, 226, 127, 252, 226, 173, 54,
       235, 158, 209, 167, 85, 204, 95, 2, 246, 126, 228, 61, 198, 83, 250, 29, 150, 32,
       121, 40, 113, 121, 24, 160, 200, 116, 170>>>>,
     <<<<55, 97, 100, 53, 100, 56, 100, 102, 57, 102, 56, 48, 102, 55, 52, 57, 102, 100,
       52, 51, 49, 54, 99, 57, 54, 56, 49, 55, 49, 57, 101, 98, 55, 98, 97, 50, 57, 99,
       50, 52, 99, 51, 56, 51, 49, 49, 100, 48, 101, 57, 98, 98, 53, 54, 48, 52, 55, 48,
       50, 52, 97, 98, 57, 49>>,
       <<77, 84, 65, 48, 101, 68, 107, 113, 77, 86, 90, 55, 78, 87, 120, 111, 78, 84, 85,
       120>>,
       <<135, 149, 251, 77, 238, 26, 69, 246, 46, 151, 64, 220, 53, 236, 71, 218, 112,
       182, 38, 122, 248, 129, 180, 122, 185, 196, 227, 250, 85, 69, 160, 148, 57, 44,
       195, 211, 169, 31, 20, 184, 111, 236, 215, 170, 213, 68, 72, 230, 117, 111, 208,
       187, 100, 158, 151, 151, 141, 150, 104, 222, 40, 189, 13, 12>>>>,
     <<<<55, 97, 100, 53, 100, 56, 100, 102, 57, 102, 56, 48, 102, 55, 52, 57, 102, 100,
       52, 51, 49, 54, 99, 57, 54, 56, 49, 55, 49, 57, 101, 98, 55, 98, 97, 50, 57, 99,
       50, 52, 99, 51, 56, 51, 49, 49, 100, 48, 101, 57, 98, 98, 53, 54, 48, 52, 55, 48,
       50, 52, 97, 98, 57, 49>>,
       <<77, 84, 65, 48, 101, 68, 107, 113, 77, 86, 90, 55, 78, 87, 120, 111, 78, 84, 89,
       120>>,
       <<70, 162, 119, 33, 117, 231, 167, 7, 213, 130, 187, 4, 130, 174, 15, 63, 163, 101,
       166, 122, 173, 54, 145, 227, 99, 31, 133, 68, 26, 37, 64, 192, 255, 43, 157, 38,
       216, 41, 121, 120, 11, 52, 198, 157, 192, 60, 114, 248, 146, 162, 189, 245, 46, 87,
       40, 144, 220, 96, 101, 107, 3, 142, 114, 206>>>>,
     <<<<55, 97, 100, 53, 100, 56, 100, 102, 57, 102, 56, 48, 102, 55, 52, 57, 102, 100,
       52, 51, 49, 54, 99, 57, 54, 56, 49, 55, 49, 57, 101, 98, 55, 98, 97, 50, 57, 99,
       50, 52, 99, 51, 56, 51, 49, 49, 100, 48, 101, 57, 98, 98, 53, 54, 48, 52, 55, 48,
       50, 52, 97, 98, 57, 49>>,
       <<77, 84, 65, 48, 101, 68, 107, 113, 77, 86, 90, 55, 78, 87, 120, 111, 78, 84, 99,
       120>>,
       <<13, 52, 128, 219, 46, 41, 13, 189, 49, 235, 86, 95, 82, 152, 178, 139, 113, 174,
       189, 46, 45, 146, 240, 217, 156, 152, 29, 212, 183, 89, 70, 193, 49, 157, 229, 197,
       242, 51, 73, 12, 204, 235, 110, 21, 156, 98, 11, 65, 172, 195, 156, 154, 8, 69, 57,
       108, 39, 173, 144, 84, 220, 41, 192, 97>>>>,
     <<<<55, 97, 100, 53, 100, 56, 100, 102, 57, 102, 56, 48, 102, 55, 52, 57, 102, 100,
       52, 51, 49, 54, 99, 57, 54, 56, 49, 55, 49, 57, 101, 98, 55, 98, 97, 50, 57, 99,
       50, 52, 99, 51, 56, 51, 49, 49, 100, 48, 101, 57, 98, 98, 53, 54, 48, 52, 55, 48,
       50, 52, 97, 98, 57, 49>>,
       <<77, 84, 65, 48, 101, 68, 107, 113, 77, 86, 90, 55, 78, 87, 120, 111, 78, 84, 103,
       120>>,
       <<85, 2, 69, 23, 141, 108, 25, 247, 57, 17, 30, 138, 238, 82, 186, 230, 94, 239,
       127, 82, 34, 40, 18, 5, 132, 13, 221, 20, 152, 172, 235, 56, 50, 32, 160, 207, 90,
       16, 100, 23, 25, 250, 108, 228, 57, 248, 81, 65, 85, 146, 43, 155, 216, 213, 167,
       211, 51, 191, 79, 139, 103, 129, 118, 227>>>>,
     <<<<55, 97, 100, 53, 100, 56, 100, 102, 57, 102, 56, 48, 102, 55, 52, 57, 102, 100,
       52, 51, 49, 54, 99, 57, 54, 56, 49, 55, 49, 57, 101, 98, 55, 98, 97, 50, 57, 99,
       50, 52, 99, 51, 56, 51, 49, 49, 100, 48, 101, 57, 98, 98, 53, 54, 48, 52, 55, 48,
       50, 52, 97, 98, 57, 49>>,
       <<77, 84, 65, 48, 101, 68, 107, 113, 77, 86, 90, 55, 78, 87, 120, 111, 78, 84, 107,
       120>>,
       <<190, 12, 58, 197, 204, 193, 157, 97, 50, 215, 171, 152, 247, 168, 154, 24, 206,
       27, 104, 128, 60, 66, 90, 168, 7, 93, 27, 186, 110, 20, 180, 175, 253, 118, 168,
       113, 236, 141, 50, 225, 187, 178, 48, 103, 87, 2, 18, 128, 209, 25, 54, 237, 154,
       46, 241, 107, 118, 78, 119, 22, 225, 221, 120, 217>>>>,
     <<<<55, 97, 100, 53, 100, 56, 100, 102, 57, 102, 56, 48, 102, 55, 52, 57, 102, 100,
       52, 51, 49, 54, 99, 57, 54, 56, 49, 55, 49, 57, 101, 98, 55, 98, 97, 50, 57, 99,
       50, 52, 99, 51, 56, 51, 49, 49, 100, 48, 101, 57, 98, 98, 53, 54, 48, 52, 55, 48,
       50, 52, 97, 98, 57, 49>>,
       <<77, 84, 65, 48, 101, 68, 107, 113, 77, 86, 90, 55, 78, 87, 120, 111, 78, 106, 65,
       120>>,
       <<47, 94, 26, 199, 15, 136, 126, 108, 85, 170, 36, 142, 98, 5, 211, 160, 244, 27,
       224, 61, 207, 29, 147, 51, 190, 46, 157, 188, 112, 64, 195, 25, 227, 248, 109, 184,
       251, 251, 129, 188, 108, 166, 205, 150, 67, 82, 31, 59, 182, 41, 138, 18, 95, 15,
       201, 94, 185, 15, 100, 123, 170, 160, 71, 92>>>>,
     <<<<55, 97, 100, 53, 100, 56, 100, 102, 57, 102, 56, 48, 102, 55, 52, 57, 102, 100,
       52, 51, 49, 54, 99, 57, 54, 56, 49, 55, 49, 57, 101, 98, 55, 98, 97, 50, 57, 99,
       50, 52, 99, 51, 56, 51, 49, 49, 100, 48, 101, 57, 98, 98, 53, 54, 48, 52, 55, 48,
       50, 52, 97, 98, 57, 49>>,
       <<77, 84, 65, 48, 101, 68, 107, 113, 77, 86, 90, 55, 78, 87, 120, 111, 78, 106,
       69>>,
       <<14, 60, 131, 128, 191, 221, 246, 10, 214, 133, 12, 186, 223, 125, 81, 61, 159,
       91, 244, 66, 227, 123, 7, 235, 156, 236, 42, 32, 149, 89, 10, 133, 158, 4, 239,
       179, 217, 120, 104, 129, 70, 7, 115, 78, 200, 250, 51, 61, 244, 29, 71, 226, 180,
       103, 132, 95, 14, 56, 85, 253, 238, 90, 218, 39>>>>,
     <<<<55, 97, 100, 53, 100, 56, 100, 102, 57, 102, 56, 48, 102, 55, 52, 57, 102, 100,
       52, 51, 49, 54, 99, 57, 54, 56, 49, 55, 49, 57, 101, 98, 55, 98, 97, 50, 57, 99,
       50, 52, 99, 51, 56, 51, 49, 49, 100, 48, 101, 57, 98, 98, 53, 54, 48, 52, 55, 48,
       50, 52, 97, 98, 57, 49>>,
       <<77, 84, 65, 48, 101, 68, 107, 113, 77, 86, 90, 55, 78, 87, 120, 111, 78, 106, 69,
       120>>,
       <<181, 147, 181, 29, 247, 88, 101, 121, 43, 132, 228, 7, 144, 174, 183, 56, 87,
       118, 92, 37, 151, 108, 142, 106, 55, 48, 157, 101, 43, 227, 236, 138, 28, 105, 39,
       244, 164, 168, 202, 3, 39, 8, 49, 154, 9, 224, 225, 18, 81, 134, 54, 93, 71, 105,
       202, 201, 50, 162, 27, 225, 137, 194, 144, 156>>>>,
     <<<<55, 97, 100, 53, 100, 56, 100, 102, 57, 102, 56, 48, 102, 55, 52, 57, 102, 100,
       52, 51, 49, 54, 99, 57, 54, 56, 49, 55, 49, 57, 101, 98, 55, 98, 97, 50, 57, 99,
       50, 52, 99, 51, 56, 51, 49, 49, 100, 48, 101, 57, 98, 98, 53, 54, 48, 52, 55, 48,
       50, 52, 97, 98, 57, 49>>,
       <<77, 84, 65, 48, 101, 68, 107, 113, 77, 86, 90, 55, 78, 87, 120, 111, 78, 106, 73,
       120>>,
       <<169, 27, 248, 133, 115, 113, 242, 39, 85, 222, 249, 115, 69, 156, 62, 133, 238,
       25, 34, 52, 208, 156, 156, 155, 18, 31, 205, 251, 148, 113, 147, 213, 143, 108,
       227, 102, 155, 196, 173, 108, 200, 16, 37, 229, 149, 220, 208, 144, 141, 205, 108,
       71, 183, 215, 247, 84, 20, 173, 172, 137, 68, 160, 95, 98>>>>,
     <<<<55, 97, 100, 53, 100, 56, 100, 102, 57, 102, 56, 48, 102, 55, 52, 57, 102, 100,
       52, 51, 49, 54, 99, 57, 54, 56, 49, 55, 49, 57, 101, 98, 55, 98, 97, 50, 57, 99,
       50, 52, 99, 51, 56, 51, 49, 49, 100, 48, 101, 57, 98, 98, 53, 54, 48, 52, 55, 48,
       50, 52, 97, 98, 57, 49>>,
       <<77, 84, 65, 48, 101, 68, 107, 113, 77, 86, 90, 55, 78, 87, 120, 111, 78, 106, 77,
       120>>,
       <<240, 201, 220, 41, 103, 177, 45, 142, 247, 49, 170, 227, 70, 194, 176, 157, 60,
       180, 167, 122, 21, 87, 131, 38, 134, 169, 17, 129, 218, 231, 159, 54, 148, 103, 18,
       246, 2, 125, 113, 205, 230, 124, 174, 7, 67, 76, 167, 74, 210, 212, 253, 27, 100,
       201, 126, 42, 172, 11, 255, 22, 180, 98, 94, 16>>>>,
     <<<<55, 97, 100, 53, 100, 56, 100, 102, 57, 102, 56, 48, 102, 55, 52, 57, 102, 100,
       52, 51, 49, 54, 99, 57, 54, 56, 49, 55, 49, 57, 101, 98, 55, 98, 97, 50, 57, 99,
       50, 52, 99, 51, 56, 51, 49, 49, 100, 48, 101, 57, 98, 98, 53, 54, 48, 52, 55, 48,
       50, 52, 97, 98, 57, 49>>,
       <<77, 84, 65, 48, 101, 68, 107, 113, 77, 86, 90, 55, 78, 87, 120, 111, 78, 106, 81,
       120>>,
       <<142, 140, 131, 22, 29, 22, 133, 230, 145, 77, 192, 123, 45, 134, 117, 105, 172,
       15, 49, 20, 60, 70, 12, 2, 119, 223, 146, 55, 9, 4, 83, 90, 194, 7, 27, 9, 230,
       201, 63, 207, 163, 74, 147, 112, 4, 154, 195, 2, 188, 173, 54, 64, 182, 186, 176,
       93, 39, 30, 97, 155, 84, 86, 87, 26>>>>,
     <<<<55, 97, 100, 53, 100, 56, 100, 102, 57, 102, 56, 48, 102, 55, 52, 57, 102, 100,
       52, 51, 49, 54, 99, 57, 54, 56, 49, 55, 49, 57, 101, 98, 55, 98, 97, 50, 57, 99,
       50, 52, 99, 51, 56, 51, 49, 49, 100, 48, 101, 57, 98, 98, 53, 54, 48, 52, 55, 48,
       50, 52, 97, 98, 57, 49>>,
       <<77, 84, 65, 48, 101, 68, 107, 113, 77, 86, 90, 55, 78, 87, 120, 111, 78, 106, 81,
       120, 77, 68, 65>>,
       <<99, 120, 22, 240, 231, 2, 197, 133, 129, 11, 144, 18, 55, 136, 2, 212, 116, 223,
       78, 91, 242, 170, 53, 107, 185, 94, 125, 67, 210, 60, 119, 76, 179, 81, 214, 35,
       43, 160, 72, 201, 59, 85, 227, 221, 212, 1, 150, 118, 172, 90, 142, 108, 29, 179,
       128, 5, 211, 4, 149, 183, 200, 128, 146, 210>>>>,
     <<<<55, 97, 100, 53, 100, 56, 100, 102, 57, 102, 56, 48, 102, 55, 52, 57, 102, 100,
       52, 51, 49, 54, 99, 57, 54, 56, 49, 55, 49, 57, 101, 98, 55, 98, 97, 50, 57, 99,
       50, 52, 99, 51, 56, 51, 49, 49, 100, 48, 101, 57, 98, 98, 53, 54, 48, 52, 55, 48,
       50, 52, 97, 98, 57, 49>>,
       <<77, 84, 65, 48, 101, 68, 107, 113, 77, 86, 90, 55, 78, 87, 120, 111, 78, 122,
       69>>,
       <<55, 187, 52, 206, 177, 254, 42, 11, 243, 247, 209, 58, 154, 88, 225, 194, 210,
       211, 102, 254, 148, 195, 199, 92, 14, 254, 18, 228, 121, 19, 246, 124, 103, 244,
       217, 104, 82, 115, 226, 26, 143, 2, 6, 15, 5, 84, 192, 165, 68, 76, 68, 42, 59,
       236, 201, 66, 117, 129, 84, 84, 36, 18, 3, 39>>>>,
     <<<<55, 97, 100, 53, 100, 56, 100, 102, 57, 102, 56, 48, 102, 55, 52, 57, 102, 100,
       52, 51, 49, 54, 99, 57, 54, 56, 49, 55, 49, 57, 101, 98, 55, 98, 97, 50, 57, 99,
       50, 52, 99, 51, 56, 51, 49, 49, 100, 48, 101, 57, 98, 98, 53, 54, 48, 52, 55, 48,
       50, 52, 97, 98, 57, 49>>,
       <<77, 84, 65, 48, 101, 68, 107, 113, 77, 86, 90, 55, 78, 87, 120, 111, 79, 68, 69>>,
       <<149, 153, 217, 41, 201, 137, 163, 242, 133, 52, 188, 232, 58, 49, 203, 237, 22,
       194, 59, 156, 115, 69, 96, 84, 251, 63, 247, 103, 85, 239, 221, 18, 11, 133, 136,
       69, 33, 29, 255, 237, 142, 45, 101, 255, 125, 101, 138, 223, 31, 41, 175, 135, 172,
       114, 71, 167, 24, 8, 237, 130, 87, 233, 119, 97>>>>,
     <<<<55, 97, 100, 53, 100, 56, 100, 102, 57, 102, 56, 48, 102, 55, 52, 57, 102, 100,
       52, 51, 49, 54, 99, 57, 54, 56, 49, 55, 49, 57, 101, 98, 55, 98, 97, 50, 57, 99,
       50, 52, 99, 51, 56, 51, 49, 49, 100, 48, 101, 57, 98, 98, 53, 54, 48, 52, 55, 48,
       50, 52, 97, 98, 57, 49>>,
       <<77, 84, 65, 48, 101, 68, 107, 113, 77, 86, 90, 55, 78, 87, 120, 111, 79, 84, 69>>,
       <<152, 0, 237, 199, 1, 108, 131, 192, 159, 194, 10, 175, 176, 53, 244, 13, 16, 140,
       74, 195, 88, 38, 120, 222, 215, 160, 126, 200, 97, 186, 18, 212, 61, 226, 114, 160,
       23, 49, 62, 14, 129, 213, 113, 206, 38, 201, 23, 13, 8, 56, 157, 20, 225, 237, 65,
       252, 125, 22, 122, 76, 20, 237, 239, 72>>>>,
     <<<<55, 97, 100, 53, 100, 56, 100, 102, 57, 102, 56, 48, 102, 55, 52, 57, 102, 100,
       52, 51, 49, 54, 99, 57, 54, 56, 49, 55, 49, 57, 101, 98, 55, 98, 97, 50, 57, 99,
       50, 52, 99, 51, 56, 51, 49, 49, 100, 48, 101, 57, 98, 98, 53, 54, 48, 52, 55, 48,
       50, 52, 97, 98, 57, 49>>,
       <<77, 84, 65, 50, 78, 68, 69>>,
       <<169, 94, 108, 7, 109, 98, 73, 71, 178, 201, 212, 236, 50, 90, 55, 145, 196, 210,
       141, 8, 237, 86, 150, 71, 128, 125, 229, 53, 90, 203, 38, 228, 140, 129, 73, 168,
       80, 161, 146, 14, 29, 86, 234, 68, 30, 165, 119, 35, 242, 8, 201, 235, 51, 59, 253,
       146, 134, 150, 241, 216, 157, 207, 68, 19>>>>,
     <<<<55, 97, 100, 53, 100, 56, 100, 102, 57, 102, 56, 48, 102, 55, 52, 57, 102, 100,
       52, 51, 49, 54, 99, 57, 54, 56, 49, 55, 49, 57, 101, 98, 55, 98, 97, 50, 57, 99,
       50, 52, 99, 51, 56, 51, 49, 49, 100, 48, 101, 57, 98, 98, 53, 54, 48, 52, 55, 48,
       50, 52, 97, 98, 57, 49>>,
       <<77, 84, 65, 50, 78, 68, 69, 120>>,
       <<83, 49, 9, 99, 242, 76, 171, 235, 49, 89, 145, 15, 253, 7, 65, 73, 162, 245, 247,
       85, 209, 35, 238, 112, 27, 77, 71, 174, 181, 168, 11, 113, 46, 78, 76, 17, 101, 30,
       168, 130, 81, 205, 46, 172, 4, 225, 204, 162, 141, 103, 120, 142, 122, 59, 223, 25,
       169, 75, 168, 86, 102, 56, 11, 18>>>>,
     <<<<55, 97, 100, 53, 100, 56, 100, 102, 57, 102, 56, 48, 102, 55, 52, 57, 102, 100,
       52, 51, 49, 54, 99, 57, 54, 56, 49, 55, 49, 57, 101, 98, 55, 98, 97, 50, 57, 99,
       50, 52, 99, 51, 56, 51, 49, 49, 100, 48, 101, 57, 98, 98, 53, 54, 48, 52, 55, 48,
       50, 52, 97, 98, 57, 49>>,
       <<77, 84, 65, 50, 78, 68, 69, 120, 77, 81>>,
       <<196, 153, 102, 156, 25, 136, 108, 62, 115, 215, 47, 142, 171, 179, 83, 200, 154,
       251, 0, 132, 199, 243, 210, 132, 119, 10, 76, 52, 137, 214, 235, 210, 232, 116,
       161, 125, 191, 197, 30, 47, 207, 157, 196, 227, 226, 87, 83, 8, 91, 39, 134, 228,
       86, 24, 241, 33, 229, 17, 243, 126, 232, 227, 92, 106>>>>,
     <<<<55, 97, 100, 53, 100, 56, 100, 102, 57, 102, 56, 48, 102, 55, 52, 57, 102, 100,
       52, 51, 49, 54, 99, 57, 54, 56, 49, 55, 49, 57, 101, 98, 55, 98, 97, 50, 57, 99,
       50, 52, 99, 51, 56, 51, 49, 49, 100, 48, 101, 57, 98, 98, 53, 54, 48, 52, 55, 48,
       50, 52, 97, 98, 57, 49>>,
       <<77, 84, 65, 50, 78, 68, 69, 121>>,
       <<105, 83, 126, 252, 212, 226, 199, 115, 202, 35, 180, 118, 43, 12, 155, 173, 114,
       91, 142, 131, 216, 208, 86, 4, 18, 7, 242, 122, 217, 9, 70, 56, 94, 146, 81, 35,
       255, 16, 156, 23, 32, 219, 241, 145, 250, 244, 17, 179, 158, 254, 35, 90, 158, 1,
       83, 24, 197, 241, 223, 226, 193, 193, 97, 204>>>>,
     <<<<55, 97, 100, 53, 100, 56, 100, 102, 57, 102, 56, 48, 102, 55, 52, 57, 102, 100,
       52, 51, 49, 54, 99, 57, 54, 56, 49, 55, 49, 57, 101, 98, 55, 98, 97, 50, 57, 99,
       50, 52, 99, 51, 56, 51, 49, 49, 100, 48, 101, 57, 98, 98, 53, 54, 48, 52, 55, 48,
       50, 52, 97, 98, 57, 49>>,
       <<77, 84, 65, 50, 78, 68, 73>>,
       <<204, 82, 16, 241, 129, 60, 13, 112, 180, 41, 222, 60, 140, 149, 7, 210, 209, 180,
       158, 189, 19, 235, 184, 121, 114, 231, 95, 44, 189, 215, 219, 252, 153, 200, 5, 21,
       80, 57, 43, 54, 163, 150, 115, 229, 11, 164, 241, 199, 6, 113, 45, 155, 8, 162,
       104, 177, 243, 45, 100, 245, 229, 240, 188, 253>>>>,
     <<<<55, 97, 100, 53, 100, 56, 100, 102, 57, 102, 56, 48, 102, 55, 52, 57, 102, 100,
       52, 51, 49, 54, 99, 57, 54, 56, 49, 55, 49, 57, 101, 98, 55, 98, 97, 50, 57, 99,
       50, 52, 99, 51, 56, 51, 49, 49, 100, 48, 101, 57, 98, 98, 53, 54, 48, 52, 55, 48,
       50, 52, 97, 98, 57, 49>>,
       <<77, 84, 65, 50, 78, 68, 73, 122, 78, 68, 85, 50, 78, 122, 103, 53, 77, 68, 69,
       120>>,
       <<112, 197, 126, 50, 15, 106, 30, 178, 180, 130, 169, 40, 233, 31, 250, 41, 31,
       207, 31, 237, 251, 35, 75, 82, 174, 59, 230, 238, 221, 167, 235, 204, 99, 84, 73,
       131, 227, 53, 182, 65, 129, 227, 194, 135, 170, 187, 25, 140, 110, 57, 49, 253,
       209, 241, 179, 246, 156, 114, 197, 132, 188, 174, 201, 113>>>>,
     <<<<55, 97, 100, 53, 100, 56, 100, 102, 57, 102, 56, 48, 102, 55, 52, 57, 102, 100,
       52, 51, 49, 54, 99, 57, 54, 56, 49, 55, 49, 57, 101, 98, 55, 98, 97, 50, 57, 99,
       50, 52, 99, 51, 56, 51, 49, 49, 100, 48, 101, 57, 98, 98, 53, 54, 48, 52, 55, 48,
       50, 52, 97, 98, 57, 49>>,
       <<77, 84, 65, 120>>,
       <<116, 90, 21, 225, 89, 192, 174, 24, 35, 90, 158, 131, 24, 73, 4, 173, 147, 199,
       142, 101, 180, 224, 166, 224, 139, 151, 4, 220, 189, 95, 209, 186, 52, 229, 94,
       138, 181, 234, 33, 76, 61, 212, 206, 94, 61, 105, 101, 129, 87, 21, 211, 51, 203,
       121, 248, 35, 1, 64, 128, 120, 50, 157, 254, 186>>>>,
     <<<<55, 97, 100, 53, 100, 56, 100, 102, 57, 102, 56, 48, 102, 55, 52, 57, 102, 100,
       52, 51, 49, 54, 99, 57, 54, 56, 49, 55, 49, 57, 101, 98, 55, 98, 97, 50, 57, 99,
       50, 52, 99, 51, 56, 51, 49, 49, 100, 48, 101, 57, 98, 98, 53, 54, 48, 52, 55, 48,
       50, 52, 97, 98, 57, 49>>,
       <<77, 84, 65, 120, 77, 81>>,
       <<168, 196, 113, 215, 189, 99, 178, 126, 140, 10, 184, 148, 245, 104, 35, 136, 80,
       126, 136, 180, 98, 225, 23, 255, 2, 206, 40, 75, 253, 148, 112, 68, 237, 54, 234,
       217, 213, 239, 25, 110, 220, 117, 11, 223, 225, 82, 35, 221, 247, 8, 136, 122, 158,
       32, 105, 27, 75, 197, 69, 98, 88, 114, 232, 39>>>>,
     <<<<55, 97, 100, 53, 100, 56, 100, 102, 57, 102, 56, 48, 102, 55, 52, 57, 102, 100,
       52, 51, 49, 54, 99, 57, 54, 56, 49, 55, 49, 57, 101, 98, 55, 98, 97, 50, 57, 99,
       50, 52, 99, 51, 56, 51, 49, 49, 100, 48, 101, 57, 98, 98, 53, 54, 48, 52, 55, 48,
       50, 52, 97, 98, 57, 49>>,
       <<77, 84, 65, 120, 77, 84, 69>>,
       <<20, 228, 211, 177, 25, 8, 96, 106, 196, 0, 173, 10, 69, 175, 151, 92, 161, 63,
       189, 31, 84, 146, 149, 28, 161, 247, 90, 33, 175, 134, 69, 227, 162, 212, 108, 142,
       177, 44, 90, 136, 26, 148, 213, 201, 22, 234, 169, 250, 55, 29, 28, 2, 109, 149,
       250, 209, 59, 18, 188, 163, 148, 47, 82, 1>>>>,
     <<<<55, 97, 100, 53, 100, 56, 100, 102, 57, 102, 56, 48, 102, 55, 52, 57, 102, 100,
       52, 51, 49, 54, 99, 57, 54, 56, 49, 55, 49, 57, 101, 98, 55, 98, 97, 50, 57, 99,
       50, 52, 99, 51, 56, 51, 49, 49, 100, 48, 101, 57, 98, 98, 53, 54, 48, 52, 55, 48,
       50, 52, 97, 98, 57, 49>>,
       <<77, 84, 65, 120, 77, 84, 69, 120>>,
       <<11, 113, 179, 5, 174, 232, 141, 232, 100, 38, 81, 125, 157, 252, 61, 219, 23,
       166, 184, 183, 215, 174, 213, 50, 42, 87, 89, 8, 81, 30, 255, 92, 185, 41, 243,
       131, 216, 189, 29, 115, 250, 85, 239, 100, 227, 251, 174, 5, 13, 89, 152, 9, 54,
       100, 231, 228, 173, 222, 132, 112, 211, 244, 109, 8>>>>,
     <<<<55, 97, 100, 53, 100, 56, 100, 102, 57, 102, 56, 48, 102, 55, 52, 57, 102, 100,
       52, 51, 49, 54, 99, 57, 54, 56, 49, 55, 49, 57, 101, 98, 55, 98, 97, 50, 57, 99,
       50, 52, 99, 51, 56, 51, 49, 49, 100, 48, 101, 57, 98, 98, 53, 54, 48, 52, 55, 48,
       50, 52, 97, 98, 57, 49>>,
       <<77, 84, 65, 120, 77, 84, 69, 120, 77, 81>>,
       <<104, 145, 217, 228, 205, 73, 77, 3, 159, 9, 43, 198, 227, 78, 250, 87, 56, 26,
       132, 73, 91, 154, 115, 49, 169, 89, 74, 110, 236, 226, 148, 168, 4, 77, 119, 203,
       23, 229, 216, 49, 107, 243, 43, 16, 194, 166, 247, 159, 62, 144, 194, 155, 168,
       123, 19, 214, 156, 40, 14, 120, 114, 10, 221, 101>>>>,
     <<<<55, 97, 100, 53, 100, 56, 100, 102, 57, 102, 56, 48, 102, 55, 52, 57, 102, 100,
       52, 51, 49, 54, 99, 57, 54, 56, 49, 55, 49, 57, 101, 98, 55, 98, 97, 50, 57, 99,
       50, 52, 99, 51, 56, 51, 49, 49, 100, 48, 101, 57, 98, 98, 53, 54, 48, 52, 55, 48,
       50, 52, 97, 98, 57, 49>>,
       <<77, 84, 65, 120, 77, 84, 69, 121>>,
       <<53, 108, 170, 19, 157, 192, 80, 38, 234, 192, 246, 175, 226, 121, 15, 183, 117,
       158, 198, 167, 127, 180, 199, 8, 44, 155, 126, 255, 187, 153, 241, 41, 110, 42,
       147, 215, 199, 61, 254, 17, 34, 219, 174, 244, 182, 147, 142, 141, 166, 1, 175,
       118, 146, 27, 250, 27, 13, 31, 120, 221, 234, 11, 59, 38>>>>,
     <<<<55, 97, 100, 53, 100, 56, 100, 102, 57, 102, 56, 48, 102, 55, 52, 57, 102, 100,
       52, 51, 49, 54, 99, 57, 54, 56, 49, 55, 49, 57, 101, 98, 55, 98, 97, 50, 57, 99,
       50, 52, 99, 51, 56, 51, 49, 49, 100, 48, 101, 57, 98, 98, 53, 54, 48, 52, 55, 48,
       50, 52, 97, 98, 57, 49>>,
       <<77, 84, 65, 120, 77, 84, 73>>,
       <<126, 218, 171, 107, 92, 94, 218, 144, 12, 129, 35, 131, 233, 239, 246, 144, 136,
       239, 77, 0, 84, 27, 205, 52, 29, 39, 9, 216, 47, 93, 217, 21, 25, 244, 109, 247,
       199, 131, 0, 38, 187, 144, 96, 142, 40, 171, 232, 31, 94, 71, 207, 59, 79, 129, 47,
       89, 220, 108, 83, 236, 193, 40, 216, 93>>>>,
     <<<<55, 97, 100, 53, 100, 56, 100, 102, 57, 102, 56, 48, 102, 55, 52, 57, 102, 100,
       52, 51, 49, 54, 99, 57, 54, 56, 49, 55, 49, 57, 101, 98, 55, 98, 97, 50, 57, 99,
       50, 52, 99, 51, 56, 51, 49, 49, 100, 48, 101, 57, 98, 98, 53, 54, 48, 52, 55, 48,
       50, 52, 97, 98, 57, 49>>,
       <<77, 84, 65, 120, 77, 84, 73, 122, 78, 68, 85, 50, 78, 122, 103, 53, 77, 68, 69,
       120>>,
       <<178, 133, 70, 48, 130, 70, 160, 215, 214, 141, 40, 93, 57, 230, 73, 57, 27, 243,
       174, 214, 12, 180, 160, 62, 8, 54, 235, 53, 179, 171, 224, 119, 53, 125, 12, 141,
       135, 233, 1, 81, 15, 6, 145, 92, 129, 172, 172, 184, 157, 21, 62, 61, 109, 72, 224,
       29, 6, 39, 19, 202, 10, 252, 69, 77>>>>,
     <<<<55, 97, 100, 53, 100, 56, 100, 102, 57, 102, 56, 48, 102, 55, 52, 57, 102, 100,
       52, 51, 49, 54, 99, 57, 54, 56, 49, 55, 49, 57, 101, 98, 55, 98, 97, 50, 57, 99,
       50, 52, 99, 51, 56, 51, 49, 49, 100, 48, 101, 57, 98, 98, 53, 54, 48, 52, 55, 48,
       50, 52, 97, 98, 57, 49>>,
       <<77, 84, 65, 120, 77, 103>>,
       <<68, 9, 45, 16, 79, 132, 142, 149, 30, 213, 224, 112, 236, 205, 178, 117, 223,
       237, 232, 189, 172, 244, 77, 189, 13, 116, 22, 28, 211, 6, 71, 69, 70, 53, 161, 46,
       90, 247, 6, 6, 4, 237, 159, 89, 141, 151, 73, 14, 82, 202, 220, 164, 182, 54, 81,
       64, 125, 231, 167, 235, 77, 232, 22, 33>>>>,
     <<<<55, 97, 100, 53, 100, 56, 100, 102, 57, 102, 56, 48, 102, 55, 52, 57, 102, 100,
       52, 51, 49, 54, 99, 57, 54, 56, 49, 55, 49, 57, 101, 98, 55, 98, 97, 50, 57, 99,
       50, 52, 99, 51, 56, 51, 49, 49, 100, 48, 101, 57, 98, 98, 53, 54, 48, 52, 55, 48,
       50, 52, 97, 98, 57, 49>>,
       <<77, 84, 65, 120, 77, 106, 69>>,
       <<19, 169, 155, 242, 7, 10, 142, 16, 209, 113, 135, 196, 203, 41, 204, 120, 55,
       165, 221, 3, 12, 60, 78, 178, 18, 196, 73, 185, 109, 98, 30, 119, 127, 170, 137,
       192, 83, 59, 37, 93, 33, 158, 11, 16, 8, 73, 186, 10, 24, 73, 192, 194, 124, 69,
       154, 123, 145, 23, 166, 47, 226, 56, 40, 181>>>>,
     <<<<55, 97, 100, 53, 100, 56, 100, 102, 57, 102, 56, 48, 102, 55, 52, 57, 102, 100,
       52, 51, 49, 54, 99, 57, 54, 56, 49, 55, 49, 57, 101, 98, 55, 98, 97, 50, 57, 99,
       50, 52, 99, 51, 56, 51, 49, 49, 100, 48, 101, 57, 98, 98, 53, 54, 48, 52, 55, 48,
       50, 52, 97, 98, 57, 49>>,
       <<77, 84, 65, 120, 77, 106, 69, 120>>,
       <<104, 111, 80, 135, 126, 133, 72, 59, 73, 72, 147, 162, 80, 104, 220, 189, 57,
       236, 95, 222, 129, 9, 92, 91, 246, 171, 242, 1, 227, 245, 146, 103, 179, 9, 58,
       178, 213, 156, 199, 223, 89, 134, 22, 119, 164, 204, 106, 54, 23, 191, 162, 132,
       174, 88, 246, 19, 161, 99, 77, 162, 241, 124, 3, 140>>>>,
     <<<<55, 97, 100, 53, 100, 56, 100, 102, 57, 102, 56, 48, 102, 55, 52, 57, 102, 100,
       52, 51, 49, 54, 99, 57, 54, 56, 49, 55, 49, 57, 101, 98, 55, 98, 97, 50, 57, 99,
       50, 52, 99, 51, 56, 51, 49, 49, 100, 48, 101, 57, 98, 98, 53, 54, 48, 52, 55, 48,
       50, 52, 97, 98, 57, 49>>,
       <<77, 84, 65, 120, 77, 106, 69, 120, 77, 81>>,
       <<191, 178, 116, 124, 84, 88, 50, 245, 120, 82, 22, 28, 246, 243, 92, 111, 26, 165,
       28, 61, 92, 194, 254, 146, 212, 231, 41, 126, 108, 11, 52, 249, 151, 243, 132, 89,
       230, 172, 52, 171, 36, 240, 65, 186, 29, 158, 74, 60, 53, 112, 96, 152, 239, 215,
       182, 177, 173, 220, 54, 210, 199, 182, 126, 253>>>>,
     <<<<55, 97, 100, 53, 100, 56, 100, 102, 57, 102, 56, 48, 102, 55, 52, 57, 102, 100,
       52, 51, 49, 54, 99, 57, 54, 56, 49, 55, 49, 57, 101, 98, 55, 98, 97, 50, 57, 99,
       50, 52, 99, 51, 56, 51, 49, 49, 100, 48, 101, 57, 98, 98, 53, 54, 48, 52, 55, 48,
       50, 52, 97, 98, 57, 49>>,
       <<77, 84, 65, 120, 77, 106, 69, 121>>,
       <<151, 165, 191, 222, 252, 226, 149, 111, 172, 6, 156, 178, 142, 193, 204, 153,
       145, 151, 132, 251, 62, 51, 240, 5, 252, 127, 214, 226, 61, 210, 176, 102, 96, 125,
       204, 108, 64, 101, 136, 205, 32, 66, 191, 77, 169, 34, 45, 36, 147, 108, 103, 255,
       63, 105, 47, 65, 42, 68, 155, 104, 69, 27, 132, 58>>>>,
     <<<<55, 97, 100, 53, 100, 56, 100, 102, 57, 102, 56, 48, 102, 55, 52, 57, 102, 100,
       52, 51, 49, 54, 99, 57, 54, 56, 49, 55, 49, 57, 101, 98, 55, 98, 97, 50, 57, 99,
       50, 52, 99, 51, 56, 51, 49, 49, 100, 48, 101, 57, 98, 98, 53, 54, 48, 52, 55, 48,
       50, 52, 97, 98, 57, 49>>,
       <<77, 84, 65, 120, 77, 106, 73>>,
       <<58, 234, 204, 109, 195, 173, 118, 47, 15, 197, 148, 204, 211, 134, 26, 122, 99,
       18, 109, 161, 0, 217, 128, 189, 242, 223, 27, 73, 54, 101, 88, 96, 153, 114, 69,
       42, 215, 156, 10, 157, 123, 54, 35, 85, 60, 10, 176, 54, 41, 25, 74, 131, 28, 82,
       3, 204, 168, 21, 170, 180, 51, 92, 213, 234>>>>,
     <<<<55, 97, 100, 53, 100, 56, 100, 102, 57, 102, 56, 48, 102, 55, 52, 57, 102, 100,
       52, 51, 49, 54, 99, 57, 54, 56, 49, 55, 49, 57, 101, 98, 55, 98, 97, 50, 57, 99,
       50, 52, 99, 51, 56, 51, 49, 49, 100, 48, 101, 57, 98, 98, 53, 54, 48, 52, 55, 48,
       50, 52, 97, 98, 57, 49>>,
       <<77, 84, 65, 120, 77, 106, 73, 122, 78, 68, 85, 50, 78, 122, 103, 53, 77, 68, 69,
       120>>,
       <<108, 86, 241, 63, 230, 135, 36, 227, 137, 49, 245, 19, 253, 46, 100, 217, 65,
       139, 88, 154, 157, 209, 194, 18, 242, 142, 125, 49, 76, 179, 9, 69, 71, 101, 186,
       204, 140, 26, 166, 206, 210, 34, 174, 176, 222, 102, 227, 253, 22, 40, 145, 43,
       167, 212, 135, 175, 204, 85, 79, 171, 13, 133, 165, 38>>>>,
     <<<<55, 97, 100, 53, 100, 56, 100, 102, 57, 102, 56, 48, 102, 55, 52, 57, 102, 100,
       52, 51, 49, 54, 99, 57, 54, 56, 49, 55, 49, 57, 101, 98, 55, 98, 97, 50, 57, 99,
       50, 52, 99, 51, 56, 51, 49, 49, 100, 48, 101, 57, 98, 98, 53, 54, 48, 52, 55, 48,
       50, 52, 97, 98, 57, 49>>,
       <<77, 84, 65, 120, 77, 106, 77, 48, 78, 84, 89, 51, 79, 68, 107, 119, 77, 81>>,
       <<234, 34, 236, 214, 246, 247, 129, 48, 46, 58, 217, 1, 17, 149, 29, 187, 216, 124,
       30, 139, 141, 87, 101, 152, 223, 26, 0, 83, 231, 34, 191, 87, 86, 48, 53, 92, 181,
       63, 119, 124, 189, 49, 33, 162, 53, 177, 31, 54, 50, 42, 132, 146, 88, 239, 207,
       179, 119, 16, 97, 227, 156, 2, 158, 108>>>>,
     <<<<55, 97, 100, 53, 100, 56, 100, 102, 57, 102, 56, 48, 102, 55, 52, 57, 102, 100,
       52, 51, 49, 54, 99, 57, 54, 56, 49, 55, 49, 57, 101, 98, 55, 98, 97, 50, 57, 99,
       50, 52, 99, 51, 56, 51, 49, 49, 100, 48, 101, 57, 98, 98, 53, 54, 48, 52, 55, 48,
       50, 52, 97, 98, 57, 49>>,
       <<77, 84, 65, 120, 77, 106, 77, 48, 78, 84, 89, 51, 79, 68, 107, 119, 77, 84, 69>>,
       <<135, 92, 200, 161, 228, 217, 50, 62, 36, 173, 195, 255, 64, 173, 209, 137, 141,
       48, 84, 42, 118, 38, 32, 11, 126, 66, 219, 93, 69, 140, 236, 237, 103, 91, 28, 99,
       220, 177, 121, 14, 131, 189, 54, 81, 130, 214, 219, 35, 164, 81, 22, 63, 242, 153,
       224, 23, 126, 195, 18, 142, 140, 191, 84, 23>>>>,
     <<<<55, 97, 100, 53, 100, 56, 100, 102, 57, 102, 56, 48, 102, 55, 52, 57, 102, 100,
       52, 51, 49, 54, 99, 57, 54, 56, 49, 55, 49, 57, 101, 98, 55, 98, 97, 50, 57, 99,
       50, 52, 99, 51, 56, 51, 49, 49, 100, 48, 101, 57, 98, 98, 53, 54, 48, 52, 55, 48,
       50, 52, 97, 98, 57, 49>>,
       <<77, 84, 65, 120, 77, 106, 77, 48, 78, 84, 89, 51, 79, 68, 107, 119, 77, 84, 69,
       120>>,
       <<165, 210, 181, 111, 138, 106, 94, 10, 53, 95, 172, 236, 47, 181, 219, 213, 229,
       137, 192, 166, 184, 4, 30, 57, 144, 141, 107, 87, 38, 106, 138, 2, 238, 231, 83,
       126, 147, 128, 84, 34, 95, 185, 170, 84, 95, 163, 187, 9, 38, 4, 188, 14, 236, 171,
       179, 88, 82, 183, 209, 73, 124, 226, 100, 125>>>>,
     <<<<55, 97, 100, 53, 100, 56, 100, 102, 57, 102, 56, 48, 102, 55, 52, 57, 102, 100,
       52, 51, 49, 54, 99, 57, 54, 56, 49, 55, 49, 57, 101, 98, 55, 98, 97, 50, 57, 99,
       50, 52, 99, 51, 56, 51, 49, 49, 100, 48, 101, 57, 98, 98, 53, 54, 48, 52, 55, 48,
       50, 52, 97, 98, 57, 49>>,
       <<77, 84, 65, 120, 77, 106, 77, 48, 78, 84, 89, 51, 79, 68, 107, 119, 77, 84, 69,
       120, 77, 81>>,
       <<200, 167, 222, 204, 90, 34, 115, 214, 50, 229, 253, 33, 60, 53, 213, 177, 37, 78,
       113, 34, 185, 124, 105, 21, 188, 100, 56, 123, 15, 17, 7, 34, 2, 142, 58, 48, 152,
       130, 165, 139, 99, 2, 43, 127, 103, 44, 54, 206, 23, 105, 5, 207, 90, 206, 184, 34,
       50, 45, 36, 47, 85, 158, 26, 16>>>>,
     <<<<55, 97, 100, 53, 100, 56, 100, 102, 57, 102, 56, 48, 102, 55, 52, 57, 102, 100,
       52, 51, 49, 54, 99, 57, 54, 56, 49, 55, 49, 57, 101, 98, 55, 98, 97, 50, 57, 99,
       50, 52, 99, 51, 56, 51, 49, 49, 100, 48, 101, 57, 98, 98, 53, 54, 48, 52, 55, 48,
       50, 52, 97, 98, 57, 49>>,
       <<77, 84, 65, 120, 77, 106, 77, 48, 78, 84, 89, 51, 79, 68, 107, 119, 77, 84, 69,
       120, 77, 84, 69>>,
       <<113, 69, 178, 220, 172, 13, 57, 88, 251, 12, 183, 33, 8, 224, 253, 189, 62, 227,
       199, 139, 33, 206, 105, 181, 138, 212, 119, 239, 148, 74, 137, 91, 244, 242, 46,
       122, 74, 135, 196, 132, 241, 134, 145, 193, 100, 251, 100, 17, 196, 237, 168, 9,
       51, 71, 66, 53, 182, 101, 145, 173, 209, 60, 209, 87>>>>,
     <<<<55, 97, 100, 53, 100, 56, 100, 102, 57, 102, 56, 48, 102, 55, 52, 57, 102, 100,
       52, 51, 49, 54, 99, 57, 54, 56, 49, 55, 49, 57, 101, 98, 55, 98, 97, 50, 57, 99,
       50, 52, 99, 51, 56, 51, 49, 49, 100, 48, 101, 57, 98, 98, 53, 54, 48, 52, 55, 48,
       50, 52, 97, 98, 57, 49>>,
       <<77, 84, 65, 120, 77, 106, 77, 48, 78, 84, 89, 51, 79, 68, 107, 119, 77, 84, 69,
       120, 77, 103>>,
       <<223, 215, 65, 180, 23, 154, 62, 219, 180, 192, 37, 191, 212, 188, 24, 28, 27, 16,
       200, 100, 78, 31, 211, 167, 178, 7, 74, 29, 60, 235, 164, 138, 210, 193, 254, 34,
       184, 125, 78, 11, 164, 167, 178, 210, 168, 95, 160, 63, 248, 130, 66, 181, 156, 50,
       139, 147, 91, 65, 249, 42, 110, 97, 130, 97>>>>,
     <<<<55, 97, 100, 53, 100, 56, 100, 102, 57, 102, 56, 48, 102, 55, 52, 57, 102, 100,
       52, 51, 49, 54, 99, 57, 54, 56, 49, 55, 49, 57, 101, 98, 55, 98, 97, 50, 57, 99,
       50, 52, 99, 51, 56, 51, 49, 49, 100, 48, 101, 57, 98, 98, 53, 54, 48, 52, 55, 48,
       50, 52, 97, 98, 57, 49>>,
       <<77, 84, 65, 120, 77, 106, 77, 48, 78, 84, 89, 51, 79, 68, 107, 119, 77, 84, 69,
       121>>,
       <<222, 87, 168, 68, 253, 62, 48, 200, 9, 79, 180, 177, 147, 20, 76, 83, 202, 38,
       12, 111, 241, 55, 150, 87, 177, 125, 85, 148, 3, 8, 81, 88, 223, 12, 96, 179, 207,
       95, 187, 252, 248, 89, 123, 125, 235, 103, 124, 173, 215, 30, 23, 187, 112, 66,
       212, 71, 121, 213, 95, 29, 164, 49, 184, 67>>>>,
     <<<<55, 97, 100, 53, 100, 56, 100, 102, 57, 102, 56, 48, 102, 55, 52, 57, 102, 100,
       52, 51, 49, 54, 99, 57, 54, 56, 49, 55, 49, 57, 101, 98, 55, 98, 97, 50, 57, 99,
       50, 52, 99, 51, 56, 51, 49, 49, 100, 48, 101, 57, 98, 98, 53, 54, 48, 52, 55, 48,
       50, 52, 97, 98, 57, 49>>,
       <<77, 84, 65, 120, 77, 106, 77, 48, 78, 84, 89, 51, 79, 68, 107, 119, 77, 84, 69,
       121, 77, 122, 81, 49, 78, 106, 99, 52, 79, 84, 65, 120, 77, 81>>,
       <<142, 42, 188, 214, 129, 37, 22, 11, 0, 11, 204, 18, 135, 144, 137, 205, 230, 120,
       104, 219, 89, 8, 28, 49, 21, 160, 184, 177, 87, 36, 166, 119, 252, 33, 17, 57, 183,
       212, 28, 96, 250, 243, 143, 12, 116, 59, 121, 210, 31, 167, 180, 132, 229, 99, 96,
       43, 225, 128, 227, 218, 246, 195, 66, 124>>>>,
     <<<<55, 97, 100, 53, 100, 56, 100, 102, 57, 102, 56, 48, 102, 55, 52, 57, 102, 100,
       52, 51, 49, 54, 99, 57, 54, 56, 49, 55, 49, 57, 101, 98, 55, 98, 97, 50, 57, 99,
       50, 52, 99, 51, 56, 51, 49, 49, 100, 48, 101, 57, 98, 98, 53, 54, 48, 52, 55, 48,
       50, 52, 97, 98, 57, 49>>,
       <<77, 84, 65, 120, 77, 106, 77, 48, 78, 84, 89, 51, 79, 68, 107, 119, 77, 84, 73>>,
       <<69, 255, 130, 211, 156, 198, 83, 189, 84, 37, 165, 171, 120, 63, 190, 251, 47,
       53, 88, 236, 202, 20, 220, 183, 179, 43, 59, 94, 168, 24, 162, 94, 244, 149, 237,
       116, 132, 111, 170, 250, 234, 219, 197, 145, 68, 112, 18, 64, 22, 42, 145, 130,
       101, 20, 159, 65, 137, 212, 4, 8, 226, 4, 55, 48>>>>,
     <<<<55, 97, 100, 53, 100, 56, 100, 102, 57, 102, 56, 48, 102, 55, 52, 57, 102, 100,
       52, 51, 49, 54, 99, 57, 54, 56, 49, 55, 49, 57, 101, 98, 55, 98, 97, 50, 57, 99,
       50, 52, 99, 51, 56, 51, 49, 49, 100, 48, 101, 57, 98, 98, 53, 54, 48, 52, 55, 48,
       50, 52, 97, 98, 57, 49>>,
       <<77, 84, 65, 120, 77, 106, 77, 48, 78, 84, 89, 51, 79, 68, 107, 119, 77, 84, 73,
       120>>,
       <<107, 34, 115, 103, 203, 25, 169, 28, 43, 238, 125, 249, 233, 147, 219, 248, 223,
       255, 141, 249, 253, 110, 134, 61, 103, 201, 132, 194, 190, 196, 126, 124, 37, 71,
       3, 244, 146, 42, 206, 191, 137, 187, 162, 180, 222, 147, 152, 222, 68, 246, 244,
       148, 60, 121, 178, 99, 72, 200, 146, 201, 136, 161, 79, 250>>>>,
     <<<<55, 97, 100, 53, 100, 56, 100, 102, 57, 102, 56, 48, 102, 55, 52, 57, 102, 100,
       52, 51, 49, 54, 99, 57, 54, 56, 49, 55, 49, 57, 101, 98, 55, 98, 97, 50, 57, 99,
       50, 52, 99, 51, 56, 51, 49, 49, 100, 48, 101, 57, 98, 98, 53, 54, 48, 52, 55, 48,
       50, 52, 97, 98, 57, 49>>,
       <<77, 84, 65, 120, 77, 106, 77, 48, 78, 84, 89, 51, 79, 68, 107, 119, 77, 84, 73,
       120, 77, 81>>,
       <<154, 113, 186, 32, 8, 253, 145, 103, 120, 203, 114, 14, 195, 17, 88, 162, 198,
       238, 42, 63, 97, 248, 224, 193, 247, 118, 150, 95, 2, 206, 200, 106, 251, 154, 106,
       121, 32, 115, 240, 120, 36, 224, 133, 112, 233, 128, 187, 94, 149, 20, 26, 168, 81,
       49, 180, 140, 189, 185, 161, 7, 219, 187, 219, 4>>>>,
     <<<<55, 97, 100, 53, 100, 56, 100, 102, 57, 102, 56, 48, 102, 55, 52, 57, 102, 100,
       52, 51, 49, 54, 99, 57, 54, 56, 49, 55, 49, 57, 101, 98, 55, 98, 97, 50, 57, 99,
       50, 52, 99, 51, 56, 51, 49, 49, 100, 48, 101, 57, 98, 98, 53, 54, 48, 52, 55, 48,
       50, 52, 97, 98, 57, 49>>,
       <<77, 84, 65, 120, 77, 106, 77, 48, 78, 84, 89, 51, 79, 68, 107, 119, 77, 84, 73,
       120, 77, 84, 69>>,
       <<210, 186, 60, 11, 168, 200, 190, 250, 220, 120, 30, 69, 199, 133, 76, 146, 239,
       75, 18, 126, 1, 18, 50, 152, 123, 97, 211, 81, 65, 245, 130, 223, 80, 128, 141,
       103, 227, 37, 3, 120, 51, 63, 193, 179, 176, 218, 250, 176, 189, 97, 137, 252, 105,
       32, 89, 222, 192, 237, 140, 88, 9, 10, 60, 210>>>>,
     <<<<55, 97, 100, 53, 100, 56, 100, 102, 57, 102, 56, 48, 102, 55, 52, 57, 102, 100,
       52, 51, 49, 54, 99, 57, 54, 56, 49, 55, 49, 57, 101, 98, 55, 98, 97, 50, 57, 99,
       50, 52, 99, 51, 56, 51, 49, 49, 100, 48, 101, 57, 98, 98, 53, 54, 48, 52, 55, 48,
       50, 52, 97, 98, 57, 49>>,
       <<77, 84, 65, 120, 77, 106, 77, 48, 78, 84, 89, 51, 79, 68, 107, 119, 77, 84, 73,
       120, 77, 103>>,
       <<27, 233, 44, 71, 128, 189, 179, 205, 142, 142, 191, 239, 168, 115, 175, 74, 239,
       112, 62, 88, 181, 163, 153, 223, 225, 146, 213, 174, 120, 77, 132, 11, 103, 58, 76,
       252, 190, 74, 146, 50, 34, 6, 91, 192, 157, 17, 67, 3, 184, 87, 52, 119, 200, 243,
       226, 217, 67, 134, 189, 136, 31, 18, 82, 178>>>>,
     <<<<55, 97, 100, 53, 100, 56, 100, 102, 57, 102, 56, 48, 102, 55, 52, 57, 102, 100,
       52, 51, 49, 54, 99, 57, 54, 56, 49, 55, 49, 57, 101, 98, 55, 98, 97, 50, 57, 99,
       50, 52, 99, 51, 56, 51, 49, 49, 100, 48, 101, 57, 98, 98, 53, 54, 48, 52, 55, 48,
       50, 52, 97, 98, 57, 49>>,
       <<77, 84, 65, 120, 77, 106, 77, 48, 78, 84, 89, 51, 79, 68, 107, 119, 77, 84, 73,
       121>>,
       <<176, 81, 58, 123, 48, 46, 229, 67, 179, 51, 195, 200, 66, 128, 58, 67, 4, 22, 97,
       60, 62, 128, 125, 11, 73, 247, 52, 57, 83, 171, 87, 148, 52, 14, 93, 116, 40, 118,
       110, 207, 247, 19, 22, 114, 32, 220, 126, 251, 3, 30, 72, 82, 200, 147, 111, 115,
       46, 245, 52, 18, 25, 94, 77, 82>>>>,
     <<<<55, 97, 100, 53, 100, 56, 100, 102, 57, 102, 56, 48, 102, 55, 52, 57, 102, 100,
       52, 51, 49, 54, 99, 57, 54, 56, 49, 55, 49, 57, 101, 98, 55, 98, 97, 50, 57, 99,
       50, 52, 99, 51, 56, 51, 49, 49, 100, 48, 101, 57, 98, 98, 53, 54, 48, 52, 55, 48,
       50, 52, 97, 98, 57, 49>>,
       <<77, 84, 65, 120, 77, 106, 77, 48, 78, 84, 89, 51, 79, 68, 107, 119, 77, 84, 73,
       121, 77, 122, 81, 49, 78, 106, 99, 52, 79, 84, 65, 120, 77, 81>>,
       <<164, 108, 7, 164, 129, 246, 73, 32, 147, 174, 190, 209, 226, 135, 182, 88, 236,
       145, 83, 30, 131, 116, 142, 99, 75, 93, 24, 113, 60, 186, 15, 98, 212, 214, 15,
       216, 117, 127, 195, 25, 168, 151, 208, 247, 179, 30, 39, 161, 202, 34, 91, 135, 28,
       70, 132, 236, 210, 190, 14, 178, 24, 70, 211, 255>>>>,
     <<<<55, 97, 100, 53, 100, 56, 100, 102, 57, 102, 56, 48, 102, 55, 52, 57, 102, 100,
       52, 51, 49, 54, 99, 57, 54, 56, 49, 55, 49, 57, 101, 98, 55, 98, 97, 50, 57, 99,
       50, 52, 99, 51, 56, 51, 49, 49, 100, 48, 101, 57, 98, 98, 53, 54, 48, 52, 55, 48,
       50, 52, 97, 98, 57, 49>>,
       <<77, 84, 65, 120, 77, 106, 77, 48, 78, 84, 89, 51, 79, 68, 107, 119, 77, 84, 73,
       122, 78, 68, 85, 50, 78, 122, 103, 53, 77, 68, 69, 120>>,
       <<215, 142, 130, 116, 38, 49, 178, 191, 161, 26, 8, 74, 193, 8, 238, 27, 223, 139,
       176, 165, 104, 135, 102, 169, 83, 107, 70, 47, 66, 52, 186, 209, 112, 223, 3, 201,
       252, 15, 152, 151, 223, 29, 177, 11, 110, 187, 183, 240, 32, 195, 124, 154, 76,
       151, 211, 76, 72, 139, 47, 145, 128, 107, 206, 74>>>>,
     <<<<55, 97, 100, 53, 100, 56, 100, 102, 57, 102, 56, 48, 102, 55, 52, 57, 102, 100,
       52, 51, 49, 54, 99, 57, 54, 56, 49, 55, 49, 57, 101, 98, 55, 98, 97, 50, 57, 99,
       50, 52, 99, 51, 56, 51, 49, 49, 100, 48, 101, 57, 98, 98, 53, 54, 48, 52, 55, 48,
       50, 52, 97, 98, 57, 49>>,
       <<77, 84, 65, 120, 77, 106, 77, 48, 78, 84, 89, 51, 79, 68, 107, 119, 77, 103>>,
       <<249, 172, 176, 215, 174, 60, 106, 164, 204, 65, 28, 19, 27, 214, 124, 18, 120,
       106, 224, 219, 239, 113, 78, 112, 37, 253, 54, 180, 201, 124, 1, 6, 239, 238, 170,
       101, 53, 105, 23, 130, 83, 220, 141, 127, 71, 193, 152, 108, 247, 28, 3, 165, 173,
       219, 19, 82, 64, 140, 2, 71, 117, 209, 116, 156>>>>,
     <<<<55, 97, 100, 53, 100, 56, 100, 102, 57, 102, 56, 48, 102, 55, 52, 57, 102, 100,
       52, 51, 49, 54, 99, 57, 54, 56, 49, 55, 49, 57, 101, 98, 55, 98, 97, 50, 57, 99,
       50, 52, 99, 51, 56, 51, 49, 49, 100, 48, 101, 57, 98, 98, 53, 54, 48, 52, 55, 48,
       50, 52, 97, 98, 57, 49>>,
       <<77, 84, 65, 120, 77, 106, 77, 48, 78, 84, 89, 51, 79, 68, 107, 119, 77, 106, 69>>,
       <<77, 225, 185, 89, 226, 85, 74, 81, 21, 33, 200, 26, 155, 73, 24, 245, 185, 194,
       27, 12, 181, 41, 160, 106, 118, 117, 30, 230, 93, 213, 56, 15, 109, 181, 156, 171,
       46, 216, 38, 233, 216, 132, 115, 164, 54, 2, 197, 20, 132, 138, 3, 148, 97, 18, 20,
       47, 228, 110, 23, 115, 78, 228, 10, 118>>>>,
     <<<<55, 97, 100, 53, 100, 56, 100, 102, 57, 102, 56, 48, 102, 55, 52, 57, 102, 100,
       52, 51, 49, 54, 99, 57, 54, 56, 49, 55, 49, 57, 101, 98, 55, 98, 97, 50, 57, 99,
       50, 52, 99, 51, 56, 51, 49, 49, 100, 48, 101, 57, 98, 98, 53, 54, 48, 52, 55, 48,
       50, 52, 97, 98, 57, 49>>,
       <<77, 84, 65, 120, 77, 106, 77, 48, 78, 84, 89, 51, 79, 68, 107, 119, 77, 106, 69,
       120>>,
       <<156, 64, 117, 221, 4, 87, 231, 155, 204, 141, 208, 9, 142, 65, 86, 246, 128, 177,
       194, 127, 96, 192, 99, 11, 121, 238, 81, 137, 16, 166, 219, 195, 191, 128, 14, 250,
       168, 183, 113, 219, 0, 251, 12, 164, 70, 98, 151, 62, 157, 161, 93, 84, 148, 247,
       148, 190, 212, 254, 142, 212, 73, 103, 9, 144>>>>,
     <<<<55, 97, 100, 53, 100, 56, 100, 102, 57, 102, 56, 48, 102, 55, 52, 57, 102, 100,
       52, 51, 49, 54, 99, 57, 54, 56, 49, 55, 49, 57, 101, 98, 55, 98, 97, 50, 57, 99,
       50, 52, 99, 51, 56, 51, 49, 49, 100, 48, 101, 57, 98, 98, 53, 54, 48, 52, 55, 48,
       50, 52, 97, 98, 57, 49>>,
       <<77, 84, 65, 120, 77, 106, 77, 48, 78, 84, 89, 51, 79, 68, 107, 119, 77, 106, 69,
       120, 77, 81>>,
       <<155, 84, 140, 22, 146, 253, 86, 118, 250, 125, 164, 107, 237, 9, 237, 42, 104, 0,
       252, 23, 200, 100, 217, 178, 22, 163, 242, 138, 229, 87, 197, 214, 28, 117, 75,
       219, 226, 124, 116, 62, 3, 87, 124, 86, 63, 83, 75, 75, 219, 138, 79, 187, 132,
       199, 222, 117, 46, 218, 140, 35, 232, 11, 19, 34>>>>,
     <<<<55, 97, 100, 53, 100, 56, 100, 102, 57, 102, 56, 48, 102, 55, 52, 57, 102, 100,
       52, 51, 49, 54, 99, 57, 54, 56, 49, 55, 49, 57, 101, 98, 55, 98, 97, 50, 57, 99,
       50, 52, 99, 51, 56, 51, 49, 49, 100, 48, 101, 57, 98, 98, 53, 54, 48, 52, 55, 48,
       50, 52, 97, 98, 57, 49>>,
       <<77, 84, 65, 120, 77, 106, 77, 48, 78, 84, 89, 51, 79, 68, 107, 119, 77, 106, 69,
       121>>,
       <<192, 183, 74, 47, 164, 120, 42, 231, 12, 76, 40, 70, 219, 142, 141, 247, 121,
       129, 206, 146, 250, 162, 57, 85, 249, 200, 10, 158, 191, 150, 95, 182, 119, 130,
       71, 203, 254, 110, 2, 178, 29, 107, 108, 105, 87, 65, 113, 154, 7, 47, 88, 101,
       180, 97, 70, 27, 94, 252, 164, 235, 78, 196, 155, 95>>>>,
     <<<<55, 97, 100, 53, 100, 56, 100, 102, 57, 102, 56, 48, 102, 55, 52, 57, 102, 100,
       52, 51, 49, 54, 99, 57, 54, 56, 49, 55, 49, 57, 101, 98, 55, 98, 97, 50, 57, 99,
       50, 52, 99, 51, 56, 51, 49, 49, 100, 48, 101, 57, 98, 98, 53, 54, 48, 52, 55, 48,
       50, 52, 97, 98, 57, 49>>,
       <<77, 84, 65, 120, 77, 106, 77, 48, 78, 84, 89, 51, 79, 68, 107, 119, 77, 106, 73>>,
       <<133, 138, 77, 3, 75, 102, 104, 88, 134, 51, 63, 221, 217, 25, 48, 71, 162, 12,
       112, 239, 89, 238, 169, 185, 70, 68, 14, 97, 42, 176, 107, 245, 77, 155, 197, 149,
       4, 234, 119, 148, 224, 63, 177, 2, 54, 241, 201, 155, 107, 140, 51, 56, 34, 232,
       178, 231, 85, 29, 183, 139, 187, 216, 137, 132>>>>,
     <<<<55, 97, 100, 53, 100, 56, 100, 102, 57, 102, 56, 48, 102, 55, 52, 57, 102, 100,
       52, 51, 49, 54, 99, 57, 54, 56, 49, 55, 49, 57, 101, 98, 55, 98, 97, 50, 57, 99,
       50, 52, 99, 51, 56, 51, 49, 49, 100, 48, 101, 57, 98, 98, 53, 54, 48, 52, 55, 48,
       50, 52, 97, 98, 57, 49>>,
       <<77, 84, 65, 120, 77, 106, 77, 48, 78, 84, 89, 51, 79, 68, 107, 119, 77, 106, 73,
       122, 78, 68, 85, 50, 78, 122, 103, 53, 77, 68, 69, 120>>,
       <<78, 114, 17, 247, 197, 181, 142, 6, 116, 210, 216, 66, 133, 15, 67, 178, 77, 3,
       171, 27, 116, 42, 53, 213, 72, 71, 106, 226, 8, 212, 82, 147, 58, 210, 127, 0, 93,
       243, 78, 204, 163, 32, 87, 15, 51, 105, 167, 23, 122, 121, 85, 217, 16, 194, 64,
       70, 124, 235, 220, 195, 61, 57, 10, 251>>>>,
     <<<<55, 97, 100, 53, 100, 56, 100, 102, 57, 102, 56, 48, 102, 55, 52, 57, 102, 100,
       52, 51, 49, 54, 99, 57, 54, 56, 49, 55, 49, 57, 101, 98, 55, 98, 97, 50, 57, 99,
       50, 52, 99, 51, 56, 51, 49, 49, 100, 48, 101, 57, 98, 98, 53, 54, 48, 52, 55, 48,
       50, 52, 97, 98, 57, 49>>,
       <<77, 84, 65, 120, 77, 106, 77, 48, 78, 84, 89, 51, 79, 68, 107, 119, 77, 106, 77,
       48, 78, 84, 89, 51, 79, 68, 107, 119, 77, 84, 69>>,
       <<46, 150, 11, 104, 131, 208, 132, 5, 12, 93, 162, 246, 106, 145, 156, 10, 13, 228,
       58, 185, 125, 60, 100, 195, 112, 43, 238, 173, 26, 250, 193, 113, 127, 219, 192,
       70, 123, 25, 160, 222, 226, 75, 88, 90, 54, 184, 250, 172, 219, 152, 136, 243, 189,
       47, 20, 234, 207, 5, 184, 6, 245, 194, 155, 114>>>>,
     <<<<55, 97, 100, 53, 100, 56, 100, 102, 57, 102, 56, 48, 102, 55, 52, 57, 102, 100,
       52, 51, 49, 54, 99, 57, 54, 56, 49, 55, 49, 57, 101, 98, 55, 98, 97, 50, 57, 99,
       50, 52, 99, 51, 56, 51, 49, 49, 100, 48, 101, 57, 98, 98, 53, 54, 48, 52, 55, 48,
       50, 52, 97, 98, 57, 49>>,
       <<77, 84, 65, 120, 77, 106, 77, 48, 78, 84, 89, 51, 79, 68, 107, 119, 78, 106, 81,
       120>>,
       <<242, 30, 239, 171, 133, 61, 79, 93, 57, 139, 97, 66, 241, 190, 61, 18, 246, 128,
       129, 153, 105, 74, 230, 168, 75, 106, 148, 113, 106, 238, 25, 226, 225, 53, 83,
       166, 95, 212, 185, 129, 226, 222, 18, 184, 70, 26, 183, 39, 103, 245, 116, 48, 95,
       111, 162, 247, 242, 1, 161, 127, 75, 174, 221, 139>>>>,
     <<<<55, 97, 100, 53, 100, 56, 100, 102, 57, 102, 56, 48, 102, 55, 52, 57, 102, 100,
       52, 51, 49, 54, 99, 57, 54, 56, 49, 55, 49, 57, 101, 98, 55, 98, 97, 50, 57, 99,
       50, 52, 99, 51, 56, 51, 49, 49, 100, 48, 101, 57, 98, 98, 53, 54, 48, 52, 55, 48,
       50, 52, 97, 98, 57, 49>>,
       <<77, 84, 65, 120, 77, 106, 77, 48, 78, 84, 89, 51, 79, 68, 107, 119, 78, 106, 81,
       120, 77, 81>>,
       <<244, 133, 143, 238, 192, 58, 211, 109, 21, 248, 98, 19, 163, 178, 163, 175, 232,
       114, 131, 16, 51, 118, 80, 154, 239, 185, 30, 68, 40, 254, 239, 200, 186, 171, 221,
       91, 29, 215, 58, 75, 133, 31, 225, 118, 16, 255, 79, 58, 90, 104, 230, 102, 164,
       161, 109, 174, 95, 68, 26, 157, 124, 33, 232, 174>>>>,
     <<<<55, 97, 100, 53, 100, 56, 100, 102, 57, 102, 56, 48, 102, 55, 52, 57, 102, 100,
       52, 51, 49, 54, 99, 57, 54, 56, 49, 55, 49, 57, 101, 98, 55, 98, 97, 50, 57, 99,
       50, 52, 99, 51, 56, 51, 49, 49, 100, 48, 101, 57, 98, 98, 53, 54, 48, 52, 55, 48,
       50, 52, 97, 98, 57, 49>>,
       <<77, 84, 65, 120, 77, 106, 77, 48, 78, 84, 89, 51, 79, 68, 107, 119, 78, 106, 81,
       120, 77, 84, 69>>,
       <<153, 182, 57, 103, 98, 164, 161, 253, 139, 73, 220, 128, 140, 211, 58, 197, 191,
       209, 96, 210, 123, 72, 114, 128, 223, 181, 156, 230, 247, 70, 100, 100, 96, 250,
       97, 98, 27, 51, 121, 43, 75, 150, 194, 97, 12, 182, 173, 40, 150, 64, 133, 150,
       206, 147, 169, 232, 200, 210, 239, 155, 168, 43, 5, 96>>>>,
     <<<<55, 97, 100, 53, 100, 56, 100, 102, 57, 102, 56, 48, 102, 55, 52, 57, 102, 100,
       52, 51, 49, 54, 99, 57, 54, 56, 49, 55, 49, 57, 101, 98, 55, 98, 97, 50, 57, 99,
       50, 52, 99, 51, 56, 51, 49, 49, 100, 48, 101, 57, 98, 98, 53, 54, 48, 52, 55, 48,
       50, 52, 97, 98, 57, 49>>,
       <<77, 84, 65, 120, 77, 106, 77, 48, 78, 84, 89, 51, 79, 68, 107, 119, 78, 106, 81,
       120, 77, 103>>,
       <<106, 79, 107, 45, 144, 24, 240, 213, 65, 227, 235, 10, 32, 101, 71, 143, 237,
       198, 244, 115, 233, 47, 81, 4, 113, 89, 123, 245, 215, 6, 94, 236, 25, 44, 237,
       106, 83, 64, 15, 251, 205, 25, 203, 191, 187, 122, 10, 33, 19, 243, 248, 147, 86,
       91, 230, 211, 190, 217, 96, 99, 219, 129, 181, 118>>>>,
     <<<<55, 97, 100, 53, 100, 56, 100, 102, 57, 102, 56, 48, 102, 55, 52, 57, 102, 100,
       52, 51, 49, 54, 99, 57, 54, 56, 49, 55, 49, 57, 101, 98, 55, 98, 97, 50, 57, 99,
       50, 52, 99, 51, 56, 51, 49, 49, 100, 48, 101, 57, 98, 98, 53, 54, 48, 52, 55, 48,
       50, 52, 97, 98, 57, 49>>,
       <<77, 84, 65, 120, 77, 106, 77, 48, 78, 84, 89, 51, 79, 68, 107, 119, 78, 106, 81,
       121>>,
       <<232, 195, 87, 238, 216, 198, 106, 181, 190, 235, 188, 228, 113, 47, 196, 235,
       135, 50, 26, 201, 156, 222, 206, 139, 239, 97, 204, 201, 170, 125, 100, 61, 240,
       243, 135, 58, 56, 71, 80, 111, 176, 76, 56, 105, 134, 55, 120, 200, 234, 25, 49,
       67, 151, 31, 149, 186, 203, 254, 133, 67, 204, 123, 187, 193>>>>,
     <<<<55, 97, 100, 53, 100, 56, 100, 102, 57, 102, 56, 48, 102, 55, 52, 57, 102, 100,
       52, 51, 49, 54, 99, 57, 54, 56, 49, 55, 49, 57, 101, 98, 55, 98, 97, 50, 57, 99,
       50, 52, 99, 51, 56, 51, 49, 49, 100, 48, 101, 57, 98, 98, 53, 54, 48, 52, 55, 48,
       50, 52, 97, 98, 57, 49>>,
       <<77, 84, 65, 120, 77, 106, 77, 48, 78, 84, 89, 51, 79, 68, 107, 119, 78, 106, 81,
       121, 77, 122, 81, 49, 78, 106, 99, 52, 79, 84, 65, 120, 77, 81>>,
       <<30, 136, 74, 173, 236, 131, 130, 232, 6, 86, 38, 33, 4, 226, 148, 53, 19, 45,
       251, 121, 12, 205, 90, 170, 163, 202, 151, 166, 171, 217, 198, 130, 204, 116, 27,
       94, 213, 67, 102, 214, 10, 114, 23, 245, 101, 39, 155, 129, 110, 188, 154, 244,
       156, 246, 189, 103, 100, 226, 195, 29, 6, 35, 189, 204>>>>,
     <<<<55, 97, 100, 53, 100, 56, 100, 102, 57, 102, 56, 48, 102, 55, 52, 57, 102, 100,
       52, 51, 49, 54, 99, 57, 54, 56, 49, 55, 49, 57, 101, 98, 55, 98, 97, 50, 57, 99,
       50, 52, 99, 51, 56, 51, 49, 49, 100, 48, 101, 57, 98, 98, 53, 54, 48, 52, 55, 48,
       50, 52, 97, 98, 57, 49>>,
       <<77, 84, 65, 121>>,
       <<205, 63, 226, 141, 159, 102, 165, 52, 18, 195, 235, 146, 145, 225, 177, 49, 57,
       242, 215, 128, 105, 183, 30, 182, 81, 95, 151, 80, 103, 142, 141, 72, 2, 132, 100,
       227, 215, 208, 174, 220, 63, 213, 170, 111, 71, 219, 119, 35, 166, 169, 114, 223,
       63, 9, 220, 229, 29, 1, 152, 151, 96, 58, 143, 2>>>>,
     <<<<55, 97, 100, 53, 100, 56, 100, 102, 57, 102, 56, 48, 102, 55, 52, 57, 102, 100,
       52, 51, 49, 54, 99, 57, 54, 56, 49, 55, 49, 57, 101, 98, 55, 98, 97, 50, 57, 99,
       50, 52, 99, 51, 56, 51, 49, 49, 100, 48, 101, 57, 98, 98, 53, 54, 48, 52, 55, 48,
       50, 52, 97, 98, 57, 49>>,
       <<77, 84, 65, 121, 77, 81>>,
       <<91, 151, 32, 165, 246, 120, 216, 192, 12, 128, 183, 30, 73, 251, 192, 248, 208,
       89, 1, 52, 138, 145, 170, 36, 92, 126, 8, 5, 106, 150, 196, 205, 125, 104, 21, 64,
       26, 65, 58, 98, 192, 0, 196, 139, 75, 181, 69, 147, 84, 75, 235, 82, 125, 116, 110,
       19, 49, 201, 220, 225, 238, 215, 116, 30>>>>,
     <<<<55, 97, 100, 53, 100, 56, 100, 102, 57, 102, 56, 48, 102, 55, 52, 57, 102, 100,
       52, 51, 49, 54, 99, 57, 54, 56, 49, 55, 49, 57, 101, 98, 55, 98, 97, 50, 57, 99,
       50, 52, 99, 51, 56, 51, 49, 49, 100, 48, 101, 57, 98, 98, 53, 54, 48, 52, 55, 48,
       50, 52, 97, 98, 57, 49>>,
       <<77, 84, 65, 121, 77, 84, 69>>,
       <<0, 0, 34, 177, 64, 44, 229, 105, 162, 191, 226, 232, 236, 45, 211, 252, 39, 140,
       49, 239, 214, 121, 227, 31, 51, 92, 148, 221, 210, 124, 137, 182, 226, 75, 65, 79,
       114, 101, 143, 233, 21, 54, 108, 194, 165, 85, 166, 96, 192, 175, 140, 11, 167,
       248, 103, 118, 202, 40, 85, 146, 116, 228, 109, 66>>>>,
     <<<<55, 97, 100, 53, 100, 56, 100, 102, 57, 102, 56, 48, 102, 55, 52, 57, 102, 100,
       52, 51, 49, 54, 99, 57, 54, 56, 49, 55, 49, 57, 101, 98, 55, 98, 97, 50, 57, 99,
       50, 52, 99, 51, 56, 51, 49, 49, 100, 48, 101, 57, 98, 98, 53, 54, 48, 52, 55, 48,
       50, 52, 97, 98, 57, 49>>,
       <<77, 84, 65, 121, 77, 84, 69, 120>>,
       <<105, 40, 83, 39, 252, 175, 224, 39, 48, 164, 34, 115, 95, 134, 112, 175, 139,
       222, 201, 194, 39, 194, 38, 107, 92, 6, 187, 115, 234, 16, 144, 165, 209, 100, 69,
       231, 22, 146, 29, 20, 111, 166, 90, 148, 157, 162, 61, 86, 153, 248, 188, 244, 81,
       5, 70, 40, 140, 220, 35, 0, 196, 184, 22, 53>>>>,
     <<<<55, 97, 100, 53, 100, 56, 100, 102, 57, 102, 56, 48, 102, 55, 52, 57, 102, 100,
       52, 51, 49, 54, 99, 57, 54, 56, 49, 55, 49, 57, 101, 98, 55, 98, 97, 50, 57, 99,
       50, 52, 99, 51, 56, 51, 49, 49, 100, 48, 101, 57, 98, 98, 53, 54, 48, 52, 55, 48,
       50, 52, 97, 98, 57, 49>>,
       <<77, 84, 65, 121, 77, 84, 73>>,
       <<163, 34, 184, 112, 89, 217, 82, 164, 218, 149, 235, 185, 107, 210, 247, 99, 232,
       174, 126, 207, 105, 153, 68, 105, 171, 241, 114, 128, 192, 212, 249, 76, 182, 205,
       114, 93, 18, 188, 46, 57, 0, 67, 31, 85, 17, 169, 161, 179, 132, 250, 2, 101, 193,
       53, 48, 126, 158, 3, 2, 2, 247, 53, 108, 114>>>>,
     <<<<55, 97, 100, 53, 100, 56, 100, 102, 57, 102, 56, 48, 102, 55, 52, 57, 102, 100,
       52, 51, 49, 54, 99, 57, 54, 56, 49, 55, 49, 57, 101, 98, 55, 98, 97, 50, 57, 99,
       50, 52, 99, 51, 56, 51, 49, 49, 100, 48, 101, 57, 98, 98, 53, 54, 48, 52, 55, 48,
       50, 52, 97, 98, 57, 49>>,
       <<77, 84, 65, 121, 77, 103>>,
       <<145, 95, 100, 225, 1, 6, 167, 36, 210, 200, 249, 177, 167, 64, 44, 194, 173, 167,
       105, 38, 212, 208, 76, 86, 71, 12, 186, 64, 56, 125, 175, 209, 183, 80, 64, 82, 29,
       238, 215, 85, 201, 114, 92, 113, 28, 92, 140, 86, 213, 122, 244, 221, 154, 57, 84,
       207, 71, 83, 105, 38, 61, 84, 21, 36>>>>,
     <<<<55, 97, 100, 53, 100, 56, 100, 102, 57, 102, 56, 48, 102, 55, 52, 57, 102, 100,
       52, 51, 49, 54, 99, 57, 54, 56, 49, 55, 49, 57, 101, 98, 55, 98, 97, 50, 57, 99,
       50, 52, 99, 51, 56, 51, 49, 49, 100, 48, 101, 57, 98, 98, 53, 54, 48, 52, 55, 48,
       50, 52, 97, 98, 57, 49>>,
       <<77, 84, 65, 121, 77, 106, 77, 48, 78, 84, 89, 51, 79, 68, 107, 119, 77, 84, 69>>,
       <<40, 88, 127, 253, 129, 136, 61, 28, 229, 61, 159, 238, 174, 45, 99, 161, 213,
       210, 127, 187, 134, 83, 32, 13, 181, 247, 77, 215, 50, 15, 87, 45, 192, 46, 205,
       92, 180, 49, 157, 30, 189, 150, 107, 132, 244, 244, 8, 239, 72, 221, 17, 74, 113,
       80, 177, 58, 124, 204, 85, 152, 11, 50, 199, 163>>>>,
     <<<<55, 97, 100, 53, 100, 56, 100, 102, 57, 102, 56, 48, 102, 55, 52, 57, 102, 100,
       52, 51, 49, 54, 99, 57, 54, 56, 49, 55, 49, 57, 101, 98, 55, 98, 97, 50, 57, 99,
       50, 52, 99, 51, 56, 51, 49, 49, 100, 48, 101, 57, 98, 98, 53, 54, 48, 52, 55, 48,
       50, 52, 97, 98, 57, 49>>,
       <<77, 84, 65, 121, 77, 122, 81, 49, 78, 106, 99, 52, 79, 84, 65, 120, 77, 81>>,
       <<139, 106, 101, 170, 148, 67, 250, 152, 70, 47, 95, 215, 27, 222, 34, 36, 38, 100,
       192, 108, 22, 53, 212, 230, 52, 170, 189, 18, 78, 25, 29, 191, 89, 136, 72, 65,
       102, 14, 112, 17, 3, 2, 117, 221, 198, 37, 3, 159, 204, 12, 31, 28, 93, 77, 119,
       45, 36, 125, 88, 249, 180, 152, 105, 181>>>>,
     <<<<55, 97, 100, 53, 100, 56, 100, 102, 57, 102, 56, 48, 102, 55, 52, 57, 102, 100,
       52, 51, 49, 54, 99, 57, 54, 56, 49, 55, 49, 57, 101, 98, 55, 98, 97, 50, 57, 99,
       50, 52, 99, 51, 56, 51, 49, 49, 100, 48, 101, 57, 98, 98, 53, 54, 48, 52, 55, 48,
       50, 52, 97, 98, 57, 49>>,
       <<77, 87, 69, 50, 78, 68, 69>>,
       <<194, 76, 22, 127, 131, 74, 119, 101, 94, 155, 227, 149, 184, 86, 244, 247, 5, 22,
       233, 55, 136, 43, 161, 218, 74, 129, 100, 104, 104, 235, 95, 239, 199, 0, 79, 230,
       42, 184, 211, 238, 91, 48, 79, 11, 152, 41, 158, 50, 29, 22, 5, 72, 149, 119, 235,
       144, 131, 98, 121, 12, 58, 191, 89, 127>>>>,
     <<<<55, 97, 100, 53, 100, 56, 100, 102, 57, 102, 56, 48, 102, 55, 52, 57, 102, 100,
       52, 51, 49, 54, 99, 57, 54, 56, 49, 55, 49, 57, 101, 98, 55, 98, 97, 50, 57, 99,
       50, 52, 99, 51, 56, 51, 49, 49, 100, 48, 101, 57, 98, 98, 53, 54, 48, 52, 55, 48,
       50, 52, 97, 98, 57, 49>>,
       <<77, 87, 69, 50, 78, 68, 69, 120>>,
       <<21, 204, 93, 213, 245, 140, 35, 51, 96, 158, 17, 123, 165, 74, 104, 104, 129,
       166, 220, 116, 48, 7, 125, 197, 109, 237, 26, 161, 211, 225, 48, 196, 134, 11, 13,
       214, 234, 164, 154, 10, 239, 39, 82, 228, 246, 94, 87, 223, 98, 189, 38, 153, 194,
       16, 190, 199, 210, 70, 117, 27, 43, 223, 144, 203>>>>,
     <<<<55, 97, 100, 53, 100, 56, 100, 102, 57, 102, 56, 48, 102, 55, 52, 57, 102, 100,
       52, 51, 49, 54, 99, 57, 54, 56, 49, 55, 49, 57, 101, 98, 55, 98, 97, 50, 57, 99,
       50, 52, 99, 51, 56, 51, 49, 49, 100, 48, 101, 57, 98, 98, 53, 54, 48, 52, 55, 48,
       50, 52, 97, 98, 57, 49>>,
       <<77, 87, 69, 50, 78, 68, 69, 120, 77, 81>>,
       <<84, 117, 40, 38, 79, 64, 78, 211, 99, 213, 16, 4, 168, 108, 255, 80, 173, 133,
       223, 14, 172, 185, 120, 112, 148, 212, 3, 38, 112, 188, 28, 40, 119, 72, 210, 188,
       182, 24, 9, 15, 247, 232, 6, 74, 111, 182, 205, 209, 171, 31, 165, 104, 158, 216,
       231, 149, 167, 206, 238, 72, 225, 232, 214, 116>>>>,
     <<<<55, 97, 100, 53, 100, 56, 100, 102, 57, 102, 56, 48, 102, 55, 52, 57, 102, 100,
       52, 51, 49, 54, 99, 57, 54, 56, 49, 55, 49, 57, 101, 98, 55, 98, 97, 50, 57, 99,
       50, 52, 99, 51, 56, 51, 49, 49, 100, 48, 101, 57, 98, 98, 53, 54, 48, 52, 55, 48,
       50, 52, 97, 98, 57, 49>>,
       <<77, 87, 69, 50, 78, 68, 69, 121>>,
       <<62, 194, 190, 253, 197, 202, 9, 241, 49, 186, 68, 89, 68, 244, 187, 134, 231,
       177, 148, 67, 84, 23, 226, 208, 119, 149, 21, 247, 190, 227, 212, 128, 175, 237,
       139, 77, 107, 152, 1, 141, 229, 9, 61, 47, 180, 121, 201, 253, 217, 237, 144, 58,
       23, 75, 187, 107, 159, 45, 234, 85, 47, 72, 233, 18>>>>,
     <<<<55, 97, 100, 53, 100, 56, 100, 102, 57, 102, 56, 48, 102, 55, 52, 57, 102, 100,
       52, 51, 49, 54, 99, 57, 54, 56, 49, 55, 49, 57, 101, 98, 55, 98, 97, 50, 57, 99,
       50, 52, 99, 51, 56, 51, 49, 49, 100, 48, 101, 57, 98, 98, 53, 54, 48, 52, 55, 48,
       50, 52, 97, 98, 57, 49>>,
       <<77, 87, 69, 50, 78, 68, 73>>,
       <<125, 156, 223, 133, 228, 137, 156, 84, 31, 166, 5, 107, 178, 233, 214, 18, 79,
       107, 237, 66, 241, 14, 241, 2, 225, 139, 212, 85, 177, 30, 35, 214, 115, 116, 240,
       119, 205, 196, 159, 117, 92, 199, 114, 54, 218, 100, 254, 94, 198, 155, 19, 60,
       205, 87, 124, 169, 70, 230, 101, 42, 188, 198, 249, 21>>>>,
     <<<<55, 97, 100, 53, 100, 56, 100, 102, 57, 102, 56, 48, 102, 55, 52, 57, 102, 100,
       52, 51, 49, 54, 99, 57, 54, 56, 49, 55, 49, 57, 101, 98, 55, 98, 97, 50, 57, 99,
       50, 52, 99, 51, 56, 51, 49, 49, 100, 48, 101, 57, 98, 98, 53, 54, 48, 52, 55, 48,
       50, 52, 97, 98, 57, 49>>,
       <<77, 87, 69, 50, 78, 68, 73, 122, 78, 68, 85, 50, 78, 122, 103, 53, 77, 68, 69,
       120>>,
       <<61, 189, 163, 213, 91, 90, 251, 126, 159, 212, 105, 108, 170, 242, 42, 62, 82,
       110, 133, 219, 214, 106, 203, 114, 246, 95, 192, 217, 41, 207, 144, 47, 220, 147,
       161, 186, 14, 12, 46, 67, 62, 224, 190, 244, 246, 111, 28, 76, 92, 131, 248, 181,
       70, 33, 27, 31, 226, 90, 85, 240, 251, 219, 181, 12>>>>,
     <<<<55, 97, 100, 53, 100, 56, 100, 102, 57, 102, 56, 48, 102, 55, 52, 57, 102, 100,
       52, 51, 49, 54, 99, 57, 54, 56, 49, 55, 49, 57, 101, 98, 55, 98, 97, 50, 57, 99,
       50, 52, 99, 51, 56, 51, 49, 49, 100, 48, 101, 57, 98, 98, 53, 54, 48, 52, 55, 48,
       50, 52, 97, 98, 57, 49>>,
       <<77, 87, 69, 120>>,
       <<188, 207, 48, 75, 132, 133, 108, 166, 99, 33, 244, 231, 222, 72, 102, 147, 136,
       114, 39, 122, 114, 13, 16, 65, 118, 131, 255, 26, 97, 33, 41, 238, 202, 7, 179,
       154, 190, 224, 201, 136, 129, 238, 7, 48, 60, 173, 139, 240, 125, 34, 235, 150, 21,
       1, 205, 14, 54, 101, 104, 95, 255, 127, 75, 207>>>>,
     <<<<55, 97, 100, 53, 100, 56, 100, 102, 57, 102, 56, 48, 102, 55, 52, 57, 102, 100,
       52, 51, 49, 54, 99, 57, 54, 56, 49, 55, 49, 57, 101, 98, 55, 98, 97, 50, 57, 99,
       50, 52, 99, 51, 56, 51, 49, 49, 100, 48, 101, 57, 98, 98, 53, 54, 48, 52, 55, 48,
       50, 52, 97, 98, 57, 49>>,
       <<77, 87, 69, 120, 77, 81>>,
       <<80, 149, 200, 177, 51, 70, 198, 118, 145, 160, 254, 64, 221, 126, 196, 82, 24,
       84, 205, 30, 108, 34, 107, 91, 21, 216, 234, 200, 90, 114, 144, 51, 106, 236, 230,
       54, 96, 36, 163, 116, 123, 72, 125, 204, 126, 233, 39, 226, 192, 125, 148, 59, 245,
       242, 92, 180, 103, 245, 246, 74, 121, 117, 187, 48>>>>,
     <<<<55, 97, 100, 53, 100, 56, 100, 102, 57, 102, 56, 48, 102, 55, 52, 57, 102, 100,
       52, 51, 49, 54, 99, 57, 54, 56, 49, 55, 49, 57, 101, 98, 55, 98, 97, 50, 57, 99,
       50, 52, 99, 51, 56, 51, 49, 49, 100, 48, 101, 57, 98, 98, 53, 54, 48, 52, 55, 48,
       50, 52, 97, 98, 57, 49>>,
       <<77, 87, 69, 120, 77, 84, 69>>,
       <<223, 193, 225, 222, 94, 233, 43, 199, 9, 142, 114, 200, 22, 21, 240, 229, 4, 134,
       121, 231, 167, 244, 188, 70, 207, 12, 201, 107, 45, 34, 109, 230, 212, 216, 22,
       182, 54, 160, 38, 178, 71, 31, 56, 9, 99, 117, 183, 25, 75, 245, 45, 95, 179, 25,
       196, 10, 6, 218, 188, 59, 245, 74, 151, 85>>>>,
     <<<<55, 97, 100, 53, 100, 56, 100, 102, 57, 102, 56, 48, 102, 55, 52, 57, 102, 100,
       52, 51, 49, 54, 99, 57, 54, 56, 49, 55, 49, 57, 101, 98, 55, 98, 97, 50, 57, 99,
       50, 52, 99, 51, 56, 51, 49, 49, 100, 48, 101, 57, 98, 98, 53, 54, 48, 52, 55, 48,
       50, 52, 97, 98, 57, 49>>,
       <<77, 87, 69, 120, 77, 84, 69, 120>>,
       <<198, 60, 0, 151, 180, 98, 108, 240, 163, 195, 217, 185, 198, 83, 56, 238, 120,
       237, 77, 107, 26, 90, 174, 120, 116, 246, 238, 179, 148, 178, 30, 134, 117, 174,
       226, 222, 121, 186, 195, 93, 250, 199, 118, 210, 115, 47, 229, 10, 133, 97, 201,
       109, 252, 8, 95, 152, 137, 182, 234, 20, 252, 55, 64, 187>>>>,
     <<<<55, 97, 100, 53, 100, 56, 100, 102, 57, 102, 56, 48, 102, 55, 52, 57, 102, 100,
       52, 51, 49, 54, 99, 57, 54, 56, 49, 55, 49, 57, 101, 98, 55, 98, 97, 50, 57, 99,
       50, 52, 99, 51, 56, 51, 49, 49, 100, 48, 101, 57, 98, 98, 53, 54, 48, 52, 55, 48,
       50, 52, 97, 98, 57, 49>>,
       <<77, 87, 69, 120, 77, 84, 69, 120, 77, 81>>,
       <<140, 234, 93, 129, 131, 29, 181, 133, 196, 168, 83, 233, 131, 232, 130, 159, 255,
       84, 13, 28, 148, 3, 118, 88, 95, 255, 72, 138, 152, 173, 129, 122, 211, 79, 87, 72,
       187, 246, 15, 165, 229, 144, 220, 43, 103, 182, 242, 184, 63, 220, 93, 19, 139,
       213, 29, 30, 176, 16, 43, 58, 218, 82, 119, 94>>>>,
     <<<<55, 97, 100, 53, 100, 56, 100, 102, 57, 102, 56, 48, 102, 55, 52, 57, 102, 100,
       52, 51, 49, 54, 99, 57, 54, 56, 49, 55, 49, 57, 101, 98, 55, 98, 97, 50, 57, 99,
       50, 52, 99, 51, 56, 51, 49, 49, 100, 48, 101, 57, 98, 98, 53, 54, 48, 52, 55, 48,
       50, 52, 97, 98, 57, 49>>,
       <<77, 87, 69, 120, 77, 84, 69, 121>>,
       <<107, 110, 55, 150, 54, 226, 137, 214, 62, 52, 5, 22, 199, 217, 209, 102, 103,
       108, 162, 194, 99, 163, 195, 77, 244, 129, 99, 249, 116, 128, 31, 134, 178, 200,
       166, 90, 187, 75, 125, 175, 31, 92, 89, 227, 241, 146, 222, 54, 83, 78, 63, 244,
       168, 248, 167, 191, 77, 17, 149, 228, 215, 110, 84, 105>>>>,
     <<<<55, 97, 100, 53, 100, 56, 100, 102, 57, 102, 56, 48, 102, 55, 52, 57, 102, 100,
       52, 51, 49, 54, 99, 57, 54, 56, 49, 55, 49, 57, 101, 98, 55, 98, 97, 50, 57, 99,
       50, 52, 99, 51, 56, 51, 49, 49, 100, 48, 101, 57, 98, 98, 53, 54, 48, 52, 55, 48,
       50, 52, 97, 98, 57, 49>>,
       <<77, 87, 69, 120, 77, 84, 73>>,
       <<238, 249, 106, 129, 61, 232, 224, 34, 34, 134, 162, 224, 89, 205, 248, 85, 89,
       91, 72, 37, 125, 61, 20, 51, 232, 36, 18, 137, 177, 171, 194, 34, 138, 76, 62, 80,
       83, 30, 182, 155, 79, 144, 121, 120, 244, 192, 177, 194, 88, 127, 43, 212, 82, 103,
       69, 93, 107, 233, 91, 199, 17, 16, 75, 254>>>>,
     <<<<55, 97, 100, 53, 100, 56, 100, 102, 57, 102, 56, 48, 102, 55, 52, 57, 102, 100,
       52, 51, 49, 54, 99, 57, 54, 56, 49, 55, 49, 57, 101, 98, 55, 98, 97, 50, 57, 99,
       50, 52, 99, 51, 56, 51, 49, 49, 100, 48, 101, 57, 98, 98, 53, 54, 48, 52, 55, 48,
       50, 52, 97, 98, 57, 49>>,
       <<77, 87, 69, 120, 77, 84, 73, 122, 78, 68, 85, 50, 78, 122, 103, 53, 77, 68, 69,
       120>>,
       <<162, 31, 24, 147, 39, 7, 252, 9, 167, 153, 42, 5, 111, 96, 73, 117, 123, 132,
       188, 216, 237, 192, 254, 134, 56, 254, 130, 56, 207, 37, 94, 180, 102, 233, 158,
       242, 145, 119, 49, 242, 41, 174, 146, 49, 218, 198, 7, 29, 231, 33, 157, 89, 95,
       249, 219, 118, 214, 26, 44, 249, 10, 229, 227, 51>>>>,
     <<<<55, 97, 100, 53, 100, 56, 100, 102, 57, 102, 56, 48, 102, 55, 52, 57, 102, 100,
       52, 51, 49, 54, 99, 57, 54, 56, 49, 55, 49, 57, 101, 98, 55, 98, 97, 50, 57, 99,
       50, 52, 99, 51, 56, 51, 49, 49, 100, 48, 101, 57, 98, 98, 53, 54, 48, 52, 55, 48,
       50, 52, 97, 98, 57, 49>>,
       <<77, 87, 69, 120, 77, 103>>,
       <<1, 7, 204, 20, 136, 198, 98, 129, 167, 41, 46, 209, 151, 139, 28, 76, 74, 74, 89,
       255, 151, 247, 21, 123, 53, 166, 213, 245, 6, 56, 192, 193, 124, 255, 157, 193, 95,
       150, 52, 214, 232, 200, 225, 110, 114, 153, 8, 160, 168, 189, 138, 106, 62, 134,
       105, 197, 47, 113, 180, 127, 122, 115, 109, 183>>>>,
     <<<<55, 97, 100, 53, 100, 56, 100, 102, 57, 102, 56, 48, 102, 55, 52, 57, 102, 100,
       52, 51, 49, 54, 99, 57, 54, 56, 49, 55, 49, 57, 101, 98, 55, 98, 97, 50, 57, 99,
       50, 52, 99, 51, 56, 51, 49, 49, 100, 48, 101, 57, 98, 98, 53, 54, 48, 52, 55, 48,
       50, 52, 97, 98, 57, 49>>,
       <<77, 87, 69, 120, 77, 106, 69>>,
       <<55, 224, 208, 90, 86, 184, 65, 108, 131, 242, 54, 205, 26, 172, 122, 18, 101,
       243, 100, 125, 59, 91, 140, 225, 53, 67, 200, 100, 200, 230, 81, 251, 17, 224, 176,
       251, 83, 67, 92, 106, 67, 15, 41, 213, 131, 7, 163, 101, 165, 82, 177, 113, 18, 69,
       109, 208, 161, 144, 125, 189, 220, 146, 128, 88>>>>,
     <<<<55, 97, 100, 53, 100, 56, 100, 102, 57, 102, 56, 48, 102, 55, 52, 57, 102, 100,
       52, 51, 49, 54, 99, 57, 54, 56, 49, 55, 49, 57, 101, 98, 55, 98, 97, 50, 57, 99,
       50, 52, 99, 51, 56, 51, 49, 49, 100, 48, 101, 57, 98, 98, 53, 54, 48, 52, 55, 48,
       50, 52, 97, 98, 57, 49>>,
       <<77, 87, 69, 120, 77, 106, 69, 120>>,
       <<161, 146, 190, 228, 215, 201, 241, 126, 60, 234, 248, 9, 214, 128, 139, 74, 35,
       12, 112, 188, 255, 127, 230, 19, 56, 0, 5, 10, 236, 155, 103, 80, 113, 197, 136,
       130, 221, 84, 93, 217, 241, 184, 41, 225, 49, 226, 106, 178, 88, 151, 27, 39, 224,
       178, 173, 152, 62, 118, 23, 119, 44, 140, 233, 192>>>>,
     <<<<55, 97, 100, 53, 100, 56, 100, 102, 57, 102, 56, 48, 102, 55, 52, 57, 102, 100,
       52, 51, 49, 54, 99, 57, 54, 56, 49, 55, 49, 57, 101, 98, 55, 98, 97, 50, 57, 99,
       50, 52, 99, 51, 56, 51, 49, 49, 100, 48, 101, 57, 98, 98, 53, 54, 48, 52, 55, 48,
       50, 52, 97, 98, 57, 49>>,
       <<77, 87, 69, 120, 77, 106, 69, 120, 77, 81>>,
       <<241, 104, 187, 162, 32, 141, 29, 64, 47, 47, 97, 233, 159, 164, 170, 109, 56, 80,
       180, 120, 207, 183, 198, 155, 181, 46, 96, 148, 100, 47, 65, 16, 109, 140, 150,
       197, 63, 70, 137, 216, 16, 9, 41, 4, 209, 184, 228, 212, 74, 108, 228, 94, 3, 205,
       161, 127, 210, 109, 64, 4, 148, 206, 77, 180>>>>,
     <<<<55, 97, 100, 53, 100, 56, 100, 102, 57, 102, 56, 48, 102, 55, 52, 57, 102, 100,
       52, 51, 49, 54, 99, 57, 54, 56, 49, 55, 49, 57, 101, 98, 55, 98, 97, 50, 57, 99,
       50, 52, 99, 51, 56, 51, 49, 49, 100, 48, 101, 57, 98, 98, 53, 54, 48, 52, 55, 48,
       50, 52, 97, 98, 57, 49>>,
       <<77, 87, 69, 120, 77, 106, 69, 121>>,
       <<35, 168, 134, 43, 189, 141, 19, 87, 11, 135, 247, 242, 26, 130, 232, 26, 234, 2,
       46, 186, 87, 144, 111, 28, 196, 223, 51, 74, 14, 163, 167, 27, 44, 250, 115, 60,
       117, 81, 129, 178, 50, 36, 139, 158, 137, 219, 54, 136, 211, 135, 193, 178, 155,
       204, 221, 115, 47, 125, 249, 25, 1, 2, 59, 175>>>>,
     <<<<55, 97, 100, 53, 100, 56, 100, 102, 57, 102, 56, 48, 102, 55, 52, 57, 102, 100,
       52, 51, 49, 54, 99, 57, 54, 56, 49, 55, 49, 57, 101, 98, 55, 98, 97, 50, 57, 99,
       50, 52, 99, 51, 56, 51, 49, 49, 100, 48, 101, 57, 98, 98, 53, 54, 48, 52, 55, 48,
       50, 52, 97, 98, 57, 49>>,
       <<77, 87, 69, 120, 77, 106, 73>>,
       <<38, 57, 0, 94, 203, 195, 254, 69, 139, 44, 244, 6, 143, 13, 121, 220, 53, 244,
       223, 101, 188, 85, 94, 182, 133, 68, 241, 100, 18, 51, 240, 204, 208, 156, 47, 125,
       214, 205, 58, 100, 208, 34, 176, 118, 214, 8, 197, 100, 84, 86, 47, 119, 113, 43,
       155, 246, 150, 118, 245, 9, 114, 228, 0, 202>>>>,
     <<<<55, 97, 100, 53, 100, 56, 100, 102, 57, 102, 56, 48, 102, 55, 52, 57, 102, 100,
       52, 51, 49, 54, 99, 57, 54, 56, 49, 55, 49, 57, 101, 98, 55, 98, 97, 50, 57, 99,
       50, 52, 99, 51, 56, 51, 49, 49, 100, 48, 101, 57, 98, 98, 53, 54, 48, 52, 55, 48,
       50, 52, 97, 98, 57, 49>>,
       <<77, 87, 69, 120, 77, 106, 73, 122, 78, 68, 85, 50, 78, 122, 103, 53, 77, 68, 69,
       120>>,
       <<53, 181, 141, 216, 71, 253, 96, 149, 117, 38, 27, 226, 247, 125, 38, 114, 242,
       240, 14, 5, 135, 222, 78, 254, 66, 91, 207, 205, 91, 7, 190, 196, 141, 241, 125,
       193, 232, 151, 89, 6, 234, 136, 150, 10, 64, 150, 157, 194, 19, 232, 111, 59, 100,
       59, 183, 211, 2, 82, 161, 248, 238, 140, 254, 49>>>>,
     <<<<55, 97, 100, 53, 100, 56, 100, 102, 57, 102, 56, 48, 102, 55, 52, 57, 102, 100,
       52, 51, 49, 54, 99, 57, 54, 56, 49, 55, 49, 57, 101, 98, 55, 98, 97, 50, 57, 99,
       50, 52, 99, 51, 56, 51, 49, 49, 100, 48, 101, 57, 98, 98, 53, 54, 48, 52, 55, 48,
       50, 52, 97, 98, 57, 49>>,
       <<77, 87, 69, 120, 77, 106, 77, 48, 78, 84, 89, 51, 79, 68, 107, 119, 77, 84, 69>>,
       <<67, 241, 99, 101, 132, 79, 204, 82, 96, 188, 169, 1, 120, 7, 219, 195, 234, 250,
       219, 47, 138, 255, 201, 204, 136, 252, 81, 186, 246, 34, 67, 51, 218, 117, 93, 118,
       131, 63, 41, 201, 197, 202, 135, 1, 151, 163, 224, 78, 60, 80, 130, 168, 17, 122,
       81, 89, 175, 253, 124, 142, 25, 61, 118, 250>>>>,
     <<<<55, 97, 100, 53, 100, 56, 100, 102, 57, 102, 56, 48, 102, 55, 52, 57, 102, 100,
       52, 51, 49, 54, 99, 57, 54, 56, 49, 55, 49, 57, 101, 98, 55, 98, 97, 50, 57, 99,
       50, 52, 99, 51, 56, 51, 49, 49, 100, 48, 101, 57, 98, 98, 53, 54, 48, 52, 55, 48,
       50, 52, 97, 98, 57, 49>>,
       <<77, 87, 69, 121>>,
       <<95, 98, 219, 16, 51, 230, 250, 209, 72, 154, 9, 87, 53, 181, 29, 1, 178, 111, 64,
       190, 230, 127, 107, 104, 126, 169, 51, 127, 79, 121, 197, 191, 229, 184, 247, 65,
       246, 19, 114, 153, 230, 196, 110, 54, 244, 38, 15, 215, 145, 244, 177, 172, 124,
       111, 0, 211, 32, 37, 173, 212, 156, 98, 30, 43>>>>,
     <<<<55, 97, 100, 53, 100, 56, 100, 102, 57, 102, 56, 48, 102, 55, 52, 57, 102, 100,
       52, 51, 49, 54, 99, 57, 54, 56, 49, 55, 49, 57, 101, 98, 55, 98, 97, 50, 57, 99,
       50, 52, 99, 51, 56, 51, 49, 49, 100, 48, 101, 57, 98, 98, 53, 54, 48, 52, 55, 48,
       50, 52, 97, 98, 57, 49>>,
       <<77, 87, 69, 121, 77, 81>>,
       <<140, 141, 25, 106, 131, 240, 29, 115, 104, 145, 148, 187, 164, 211, 254, 56, 74,
       227, 94, 10, 135, 209, 58, 232, 251, 78, 49, 142, 103, 240, 232, 112, 212, 202,
       125, 131, 225, 119, 104, 69, 84, 47, 25, 144, 191, 205, 252, 170, 68, 74, 23, 203,
       96, 218, 194, 203, 160, 113, 16, 81, 176, 19, 176, 13>>>>,
     <<<<55, 97, 100, 53, 100, 56, 100, 102, 57, 102, 56, 48, 102, 55, 52, 57, 102, 100,
       52, 51, 49, 54, 99, 57, 54, 56, 49, 55, 49, 57, 101, 98, 55, 98, 97, 50, 57, 99,
       50, 52, 99, 51, 56, 51, 49, 49, 100, 48, 101, 57, 98, 98, 53, 54, 48, 52, 55, 48,
       50, 52, 97, 98, 57, 49>>,
       <<77, 87, 69, 121, 77, 84, 69>>,
       <<175, 110, 94, 30, 213, 206, 248, 232, 4, 64, 138, 180, 98, 245, 115, 152, 80, 57,
       134, 252, 44, 217, 54, 48, 254, 221, 66, 227, 247, 237, 103, 104, 28, 56, 69, 183,
       29, 207, 51, 30, 39, 35, 64, 104, 39, 5, 236, 143, 55, 247, 66, 250, 131, 100, 75,
       20, 12, 160, 133, 203, 195, 89, 225, 108>>>>,
     <<<<55, 97, 100, 53, 100, 56, 100, 102, 57, 102, 56, 48, 102, 55, 52, 57, 102, 100,
       52, 51, 49, 54, 99, 57, 54, 56, 49, 55, 49, 57, 101, 98, 55, 98, 97, 50, 57, 99,
       50, 52, 99, 51, 56, 51, 49, 49, 100, 48, 101, 57, 98, 98, 53, 54, 48, 52, 55, 48,
       50, 52, 97, 98, 57, 49>>,
       <<77, 87, 69, 121, 77, 84, 69, 120>>,
       <<108, 78, 18, 233, 215, 204, 4, 246, 28, 198, 251, 163, 59, 80, 11, 65, 225, 56,
       50, 14, 161, 23, 97, 185, 150, 21, 115, 2, 248, 79, 182, 159, 25, 124, 124, 13, 96,
       156, 25, 20, 253, 143, 61, 189, 143, 46, 138, 246, 60, 86, 189, 167, 205, 105, 246,
       82, 59, 250, 78, 144, 203, 83, 226, 48>>>>,
     <<<<55, 97, 100, 53, 100, 56, 100, 102, 57, 102, 56, 48, 102, 55, 52, 57, 102, 100,
       52, 51, 49, 54, 99, 57, 54, 56, 49, 55, 49, 57, 101, 98, 55, 98, 97, 50, 57, 99,
       50, 52, 99, 51, 56, 51, 49, 49, 100, 48, 101, 57, 98, 98, 53, 54, 48, 52, 55, 48,
       50, 52, 97, 98, 57, 49>>,
       <<77, 87, 69, 121, 77, 84, 73>>,
       <<110, 30, 5, 246, 143, 8, 5, 167, 149, 112, 11, 250, 19, 228, 178, 109, 237, 172,
       92, 116, 211, 53, 31, 15, 171, 240, 247, 117, 60, 9, 101, 231, 9, 1, 132, 91, 0,
       131, 195, 27, 32, 219, 198, 213, 38, 215, 204, 232, 38, 74, 4, 96, 39, 215, 58, 52,
       176, 93, 195, 130, 4, 178, 104, 99>>>>,
     <<<<55, 97, 100, 53, 100, 56, 100, 102, 57, 102, 56, 48, 102, 55, 52, 57, 102, 100,
       52, 51, 49, 54, 99, 57, 54, 56, 49, 55, 49, 57, 101, 98, 55, 98, 97, 50, 57, 99,
       50, 52, 99, 51, 56, 51, 49, 49, 100, 48, 101, 57, 98, 98, 53, 54, 48, 52, 55, 48,
       50, 52, 97, 98, 57, 49>>,
       <<77, 87, 69, 121, 77, 103>>,
       <<211, 168, 184, 110, 249, 149, 123, 39, 153, 16, 21, 42, 1, 227, 200, 15, 97, 71,
       187, 18, 201, 125, 246, 230, 59, 72, 251, 101, 23, 245, 33, 83, 42, 104, 243, 150,
       117, 53, 15, 69, 139, 151, 63, 42, 217, 64, 35, 186, 176, 158, 111, 52, 174, 227,
       115, 237, 222, 98, 160, 136, 78, 84, 186, 33>>>>,
     <<<<55, 97, 100, 53, 100, 56, 100, 102, 57, 102, 56, 48, 102, 55, 52, 57, 102, 100,
       52, 51, 49, 54, 99, 57, 54, 56, 49, 55, 49, 57, 101, 98, 55, 98, 97, 50, 57, 99,
       50, 52, 99, 51, 56, 51, 49, 49, 100, 48, 101, 57, 98, 98, 53, 54, 48, 52, 55, 48,
       50, 52, 97, 98, 57, 49>>,
       <<77, 87, 69, 121, 77, 106, 77, 48, 78, 84, 89, 51, 79, 68, 107, 119, 77, 84, 69>>,
       <<233, 58, 123, 101, 144, 137, 124, 161, 156, 224, 240, 244, 105, 44, 128, 162, 49,
       34, 41, 185, 144, 68, 126, 106, 156, 199, 41, 46, 150, 158, 184, 199, 72, 50, 254,
       97, 204, 214, 141, 22, 10, 232, 105, 221, 21, 2, 133, 15, 66, 42, 201, 35, 189,
       107, 9, 235, 223, 61, 60, 133, 38, 172, 222, 5>>>>,
     <<<<55, 97, 100, 53, 100, 56, 100, 102, 57, 102, 56, 48, 102, 55, 52, 57, 102, 100,
       52, 51, 49, 54, 99, 57, 54, 56, 49, 55, 49, 57, 101, 98, 55, 98, 97, 50, 57, 99,
       50, 52, 99, 51, 56, 51, 49, 49, 100, 48, 101, 57, 98, 98, 53, 54, 48, 52, 55, 48,
       50, 52, 97, 98, 57, 49>>,
       <<77, 87, 69, 121, 77, 122, 81, 49, 78, 106, 99, 52, 79, 84, 65, 120, 77, 81>>,
       <<208, 217, 31, 142, 216, 112, 185, 228, 95, 166, 13, 124, 226, 108, 3, 188, 249,
       119, 8, 135, 138, 22, 230, 186, 151, 9, 148, 228, 232, 200, 235, 179, 61, 228, 128,
       114, 215, 117, 69, 142, 50, 6, 170, 74, 14, 169, 170, 246, 195, 157, 132, 207, 48,
       44, 34, 186, 15, 50, 162, 4, 180, 108, 79, 40>>>>,
     <<<<56, 56, 49, 54, 98, 57, 55, 53, 50, 52, 53, 54, 57, 53, 97, 100, 97, 54, 54, 54,
       57, 53, 98, 50, 51, 98, 56, 56, 102, 98, 97, 50, 101, 51, 50, 101, 56, 53, 102, 56,
       99, 56, 54, 98, 102, 50, 53, 57, 99, 99, 48, 101, 57, 98, 49, 48, 57, 50, 99, 98,
       101, 97, 54, 51>>,
       <<77, 106, 65, 114, 89, 106, 104, 83, 102, 106, 57, 110, 86, 106, 74, 56, 75, 122,
       66, 110, 100, 70, 69, 56, 85, 85, 86, 50, 80, 68, 89, 48, 77, 84, 65, 119>>,
       <<139, 121, 82, 138, 119, 178, 175, 119, 250, 84, 61, 250, 208, 53, 88, 18, 93,
       104, 219, 84, 214, 212, 13, 7, 145, 126, 84, 74, 31, 56, 74, 54, 57, 33, 49, 101,
       201, 118, 253, 40, 13, 122, 125, 161, 42, 153, 117, 127, 109, 209, 189, 215, 176,
       118, 105, 162, 152, 228, 183, 16, 199, 149, 188, 47>>>>,
     <<<<97, 48, 50, 50, 54, 57, 54, 48, 49, 98, 102, 49, 97, 53, 57, 51, 48, 51, 55, 102,
       51, 57, 56, 56, 56, 51, 52, 52, 100, 51, 98, 55, 48, 52, 54, 51, 102, 49, 54, 50,
       54, 50, 48, 49, 53, 57, 53, 48, 50, 53, 97, 100, 53, 100, 56, 98, 102, 57, 57, 49,
       51, 56, 57, 55>>,
       <<77, 106, 65, 114, 89, 106, 104, 83, 102, 106, 57, 110, 86, 106, 74, 56, 75, 122,
       66, 110, 100, 70, 69, 56, 85, 85, 86, 50, 80, 68, 89, 48, 77, 84, 65, 119>>,
       <<59, 14, 87, 16, 103, 219, 63, 3, 219, 15, 143, 78, 112, 109, 167, 60, 189, 22,
       124, 64, 72, 2, 255, 125, 43, 34, 29, 234, 193, 38, 183, 14, 167, 53, 4, 186, 42,
       54, 130, 184, 166, 12, 2, 66, 222, 77, 187, 21, 141, 3, 242, 114, 159, 235, 161,
       174, 88, 79, 179, 107, 90, 132, 168, 74>>>>,
     <<<<97, 48, 51, 98, 51, 53, 55, 101, 53, 57, 102, 48, 98, 97, 49, 56, 98, 50, 56, 56,
       49, 56, 48, 101, 101, 99, 48, 98, 54, 97, 57, 48, 49, 98, 54, 55, 49, 52, 51, 98,
       53, 53, 51, 49, 53, 102, 53, 99, 98, 53, 55, 98, 100, 99, 54, 56, 98, 53, 56, 100,
       48, 48, 54, 51>>,
       <<77, 68, 69, 119, 77, 81>>,
       <<88, 149, 237, 5, 170, 112, 108, 30, 185, 70, 186, 128, 141, 209, 15, 13, 251,
       213, 102, 211, 13, 95, 224, 121, 111, 49, 167, 44, 149, 221, 45, 153, 152, 53, 175,
       161, 142, 134, 167, 142, 22, 77, 116, 151, 27, 11, 53, 50, 195, 217, 225, 102, 76,
       233, 136, 5, 130, 170, 163, 189, 220, 140, 203, 6>>>>,
     <<<<97, 48, 51, 98, 51, 53, 55, 101, 53, 57, 102, 48, 98, 97, 49, 56, 98, 50, 56, 56,
       49, 56, 48, 101, 101, 99, 48, 98, 54, 97, 57, 48, 49, 98, 54, 55, 49, 52, 51, 98,
       53, 53, 51, 49, 53, 102, 53, 99, 98, 53, 55, 98, 100, 99, 54, 56, 98, 53, 56, 100,
       48, 48, 54, 51>>,
       <<77, 68, 69, 119, 77, 84, 65, 119>>,
       <<141, 17, 82, 203, 161, 167, 229, 172, 182, 205, 230, 99, 181, 244, 196, 33, 228,
       150, 105, 207, 124, 124, 223, 55, 181, 108, 245, 100, 215, 57, 72, 251, 250, 125,
       59, 204, 201, 111, 107, 15, 123, 19, 175, 254, 29, 217, 80, 98, 237, 61, 85, 132,
       108, 229, 161, 227, 249, 182, 30, 155, 0, 139, 89, 131>>>>,
     <<<<97, 48, 51, 98, 51, 53, 55, 101, 53, 57, 102, 48, 98, 97, 49, 56, 98, 50, 56, 56,
       49, 56, 48, 101, 101, 99, 48, 98, 54, 97, 57, 48, 49, 98, 54, 55, 49, 52, 51, 98,
       53, 53, 51, 49, 53, 102, 53, 99, 98, 53, 55, 98, 100, 99, 54, 56, 98, 53, 56, 100,
       48, 48, 54, 51>>,
       <<77, 68, 89, 48, 77, 81>>,
       <<90, 45, 83, 9, 123, 50, 205, 235, 32, 21, 198, 66, 167, 131, 82, 233, 190, 56,
       61, 222, 148, 56, 151, 199, 95, 252, 68, 70, 184, 34, 18, 66, 27, 17, 28, 227, 63,
       117, 254, 64, 3, 223, 29, 165, 72, 170, 83, 63, 153, 157, 38, 77, 69, 34, 38, 107,
       84, 83, 35, 83, 64, 107, 199, 176>>>>,
     <<<<97, 48, 51, 98, 51, 53, 55, 101, 53, 57, 102, 48, 98, 97, 49, 56, 98, 50, 56, 56,
       49, 56, 48, 101, 101, 99, 48, 98, 54, 97, 57, 48, 49, 98, 54, 55, 49, 52, 51, 98,
       53, 53, 51, 49, 53, 102, 53, 99, 98, 53, 55, 98, 100, 99, 54, 56, 98, 53, 56, 100,
       48, 48, 54, 51>>,
       <<77, 68, 89, 48, 77, 84, 65, 119>>,
       <<236, 108, 167, 122, 230, 144, 3, 163, 191, 59, 228, 9, 3, 18, 244, 3, 193, 120,
       110, 110, 138, 190, 111, 147, 60, 133, 157, 239, 3, 210, 188, 204, 132, 241, 36,
       64, 228, 98, 57, 252, 48, 250, 154, 80, 97, 170, 190, 61, 204, 57, 33, 228, 8, 213,
       167, 101, 105, 12, 187, 169, 114, 164, 20, 246>>>>,
     <<<<97, 48, 51, 98, 51, 53, 55, 101, 53, 57, 102, 48, 98, 97, 49, 56, 98, 50, 56, 56,
       49, 56, 48, 101, 101, 99, 48, 98, 54, 97, 57, 48, 49, 98, 54, 55, 49, 52, 51, 98,
       53, 53, 51, 49, 53, 102, 53, 99, 98, 53, 55, 98, 100, 99, 54, 56, 98, 53, 56, 100,
       48, 48, 54, 51>>,
       <<77, 84, 65, 48, 101, 68, 107, 113, 77, 86, 90, 55, 78, 87, 120, 111, 77, 84, 65,
       120>>,
       <<99, 77, 32, 67, 103, 67, 42, 9, 114, 82, 109, 85, 111, 54, 170, 194, 10, 220, 20,
       33, 218, 62, 91, 229, 181, 70, 185, 131, 203, 212, 17, 213, 202, 127, 165, 0, 238,
       128, 199, 119, 92, 67, 173, 149, 59, 243, 89, 221, 52, 138, 45, 135, 10, 158, 131,
       170, 235, 223, 146, 92, 179, 236, 76, 21>>>>,
     <<<<97, 48, 51, 98, 51, 53, 55, 101, 53, 57, 102, 48, 98, 97, 49, 56, 98, 50, 56, 56,
       49, 56, 48, 101, 101, 99, 48, 98, 54, 97, 57, 48, 49, 98, 54, 55, 49, 52, 51, 98,
       53, 53, 51, 49, 53, 102, 53, 99, 98, 53, 55, 98, 100, 99, 54, 56, 98, 53, 56, 100,
       48, 48, 54, 51>>,
       <<77, 84, 65, 48, 101, 68, 107, 113, 77, 86, 90, 55, 78, 87, 120, 111, 77, 84, 65,
       120, 77, 68, 65>>,
       <<77, 136, 207, 214, 101, 24, 203, 158, 17, 66, 81, 113, 202, 93, 222, 197, 123,
       48, 235, 201, 18, 38, 9, 110, 190, 151, 234, 179, 99, 79, 39, 158, 45, 39, 241,
       141, 217, 1, 34, 178, 92, 58, 13, 115, 112, 19, 113, 124, 103, 186, 191, 11, 245,
       10, 83, 29, 139, 229, 53, 24, 55, 235, 62, 221>>>>,
     <<<<97, 48, 51, 98, 51, 53, 55, 101, 53, 57, 102, 48, 98, 97, 49, 56, 98, 50, 56, 56,
       49, 56, 48, 101, 101, 99, 48, 98, 54, 97, 57, 48, 49, 98, 54, 55, 49, 52, 51, 98,
       53, 53, 51, 49, 53, 102, 53, 99, 98, 53, 55, 98, 100, 99, 54, 56, 98, 53, 56, 100,
       48, 48, 54, 51>>,
       <<77, 84, 65, 48, 101, 68, 107, 113, 77, 86, 90, 55, 78, 87, 120, 111, 78, 106, 81,
       120>>,
       <<125, 39, 118, 56, 154, 249, 235, 9, 29, 115, 151, 35, 250, 96, 236, 250, 21, 86,
       204, 180, 122, 23, 117, 66, 112, 81, 100, 248, 244, 53, 201, 171, 7, 27, 98, 163,
       59, 119, 222, 40, 223, 192, 245, 24, 90, 88, 158, 65, 144, 224, 182, 202, 81, 55,
       179, 144, 74, 90, 2, 168, 246, 139, 84, 94>>>>,
     <<<<97, 48, 51, 98, 51, 53, 55, 101, 53, 57, 102, 48, 98, 97, 49, 56, 98, 50, 56, 56,
       49, 56, 48, 101, 101, 99, 48, 98, 54, 97, 57, 48, 49, 98, 54, 55, 49, 52, 51, 98,
       53, 53, 51, 49, 53, 102, 53, 99, 98, 53, 55, 98, 100, 99, 54, 56, 98, 53, 56, 100,
       48, 48, 54, 51>>,
       <<77, 84, 65, 48, 101, 68, 107, 113, 77, 86, 90, 55, 78, 87, 120, 111, 78, 106, 81,
       120, 77, 68, 65>>,
       <<176, 160, 250, 225, 128, 169, 38, 1, 72, 32, 126, 94, 92, 155, 228, 170, 93, 124,
       155, 58, 65, 106, 123, 44, 16, 79, 132, 103, 2, 156, 63, 142, 56, 80, 126, 204,
       221, 156, 232, 254, 104, 90, 100, 182, 146, 253, 67, 226, 231, 122, 81, 53, 111,
       93, 232, 193, 24, 151, 245, 66, 21, 239, 206, 184>>>>,
     <<<<97, 98, 52, 101, 100, 102, 50, 100, 97, 97, 97, 48, 101, 53, 53, 56, 56, 52, 102,
       101, 97, 57, 52, 56, 49, 55, 101, 100, 57, 101, 57, 102, 53, 101, 54, 52, 101, 52,
       50, 52, 100, 102, 102, 54, 102, 50, 100, 50, 97, 99, 50, 101, 54, 48, 50, 57, 53,
       101, 53, 50, 102, 48, 102, 48>>,
       <<77, 68, 69, 119, 77, 81>>,
       <<195, 173, 181, 223, 235, 56, 186, 86, 189, 57, 12, 24, 15, 126, 223, 108, 163,
       203, 53, 120, 33, 107, 80, 112, 167, 36, 227, 67, 47, 26, 222, 206, 134, 204, 141,
       179, 151, 97, 185, 10, 170, 59, 129, 213, 136, 249, 72, 62, 143, 100, 53, 27, 163,
       34, 216, 15, 77, 52, 41, 135, 157, 238, 164, 212>>>>,
     <<<<97, 98, 52, 101, 100, 102, 50, 100, 97, 97, 97, 48, 101, 53, 53, 56, 56, 52, 102,
       101, 97, 57, 52, 56, 49, 55, 101, 100, 57, 101, 57, 102, 53, 101, 54, 52, 101, 52,
       50, 52, 100, 102, 102, 54, 102, 50, 100, 50, 97, 99, 50, 101, 54, 48, 50, 57, 53,
       101, 53, 50, 102, 48, 102, 48>>,
       <<77, 68, 69, 119, 77, 84, 65, 119>>,
       <<144, 80, 195, 217, 13, 212, 175, 130, 178, 237, 182, 90, 90, 250, 96, 27, 96, 29,
       163, 62, 12, 75, 200, 128, 157, 214, 1, 4, 251, 109, 40, 73, 44, 5, 235, 36, 143,
       211, 52, 121, 199, 217, 97, 231, 99, 200, 120, 37, 90, 24, 39, 121, 8, 42, 2, 56,
       132, 141, 170, 251, 85, 92, 15, 113>>>>,
     <<<<97, 98, 52, 101, 100, 102, 50, 100, 97, 97, 97, 48, 101, 53, 53, 56, 56, 52, 102,
       101, 97, 57, 52, 56, 49, 55, 101, 100, 57, 101, 57, 102, 53, 101, 54, 52, 101, 52,
       50, 52, 100, 102, 102, 54, 102, 50, 100, 50, 97, 99, 50, 101, 54, 48, 50, 57, 53,
       101, 53, 50, 102, 48, 102, 48>>,
       <<77, 68, 89, 48, 77, 81>>,
       <<247, 35, 114, 177, 144, 167, 105, 66, 223, 123, 203, 58, 134, 200, 77, 95, 27,
       236, 11, 90, 106, 47, 248, 94, 109, 152, 6, 249, 201, 65, 165, 165, 76, 15, 151,
       136, 90, 78, 134, 193, 193, 106, 223, 15, 227, 232, 190, 156, 156, 204, 219, 149,
       223, 45, 0, 39, 102, 108, 209, 2, 185, 231, 177, 179>>>>,
     <<<<97, 98, 52, 101, 100, 102, 50, 100, 97, 97, 97, 48, 101, 53, 53, 56, 56, 52, 102,
       101, 97, 57, 52, 56, 49, 55, 101, 100, 57, 101, 57, 102, 53, 101, 54, 52, 101, 52,
       50, 52, 100, 102, 102, 54, 102, 50, 100, 50, 97, 99, 50, 101, 54, 48, 50, 57, 53,
       101, 53, 50, 102, 48, 102, 48>>,
       <<77, 68, 89, 48, 77, 84, 65, 119>>,
       <<210, 192, 20, 200, 74, 11, 193, 231, 150, 66, 199, 32, 149, 124, 93, 127, 23, 8,
       186, 185, 142, 120, 107, 200, 173, 155, 181, 69, 79, 28, 1, 12, 183, 238, 83, 231,
       62, 249, 243, 5, 41, 241, 180, 247, 194, 123, 38, 184, 77, 151, 79, 72, 26, 61, 63,
       15, 31, 152, 194, 23, 84, 238, 19, 84>>>>,
     <<<<97, 98, 52, 101, 100, 102, 50, 100, 97, 97, 97, 48, 101, 53, 53, 56, 56, 52, 102,
       101, 97, 57, 52, 56, 49, 55, 101, 100, 57, 101, 57, 102, 53, 101, 54, 52, 101, 52,
       50, 52, 100, 102, 102, 54, 102, 50, 100, 50, 97, 99, 50, 101, 54, 48, 50, 57, 53,
       101, 53, 50, 102, 48, 102, 48>>,
       <<77, 84, 65, 48, 101, 68, 107, 113, 77, 86, 90, 55, 78, 87, 120, 111, 77, 84, 65,
       120>>,
       <<119, 3, 30, 246, 51, 215, 190, 218, 178, 2, 109, 163, 182, 102, 249, 189, 2, 71,
       245, 219, 18, 58, 55, 202, 27, 69, 194, 251, 82, 165, 127, 68, 53, 234, 48, 171,
       215, 82, 166, 149, 229, 110, 86, 244, 133, 107, 195, 17, 109, 137, 134, 82, 24,
       189, 116, 194, 91, 215, 40, 131, 52, 20, 107, 141>>>>,
     <<<<97, 98, 52, 101, 100, 102, 50, 100, 97, 97, 97, 48, 101, 53, 53, 56, 56, 52, 102,
       101, 97, 57, 52, 56, 49, 55, 101, 100, 57, 101, 57, 102, 53, 101, 54, 52, 101, 52,
       50, 52, 100, 102, 102, 54, 102, 50, 100, 50, 97, 99, 50, 101, 54, 48, 50, 57, 53,
       101, 53, 50, 102, 48, 102, 48>>,
       <<77, 84, 65, 48, 101, 68, 107, 113, 77, 86, 90, 55, 78, 87, 120, 111, 77, 84, 65,
       120, 77, 68, 65>>,
       <<190, 109, 146, 114, 125, 103, 113, 120, 135, 225, 92, 59, 166, 172, 244, 162,
       168, 152, 14, 103, 225, 143, 35, 22, 97, 164, 40, 191, 76, 165, 115, 203, 56, 82,
       4, 99, 85, 217, 202, 93, 147, 98, 20, 176, 20, 1, 6, 10, 13, 185, 142, 56, 69, 54,
       118, 58, 230, 232, 89, 149, 140, 11, 11, 178>>>>,
     <<<<97, 98, 52, 101, 100, 102, 50, 100, 97, 97, 97, 48, 101, 53, 53, 56, 56, 52, 102,
       101, 97, 57, 52, 56, 49, 55, 101, 100, 57, 101, 57, 102, 53, 101, 54, 52, 101, 52,
       50, 52, 100, 102, 102, 54, 102, 50, 100, 50, 97, 99, 50, 101, 54, 48, 50, 57, 53,
       101, 53, 50, 102, 48, 102, 48>>,
       <<77, 84, 65, 48, 101, 68, 107, 113, 77, 86, 90, 55, 78, 87, 120, 111, 78, 106, 81,
       120>>,
       <<169, 95, 235, 145, 21, 15, 151, 27, 100, 217, 110, 78, 17, 111, 107, 191, 189,
       124, 72, 36, 249, 250, 57, 199, 8, 101, 104, 93, 167, 188, 131, 226, 41, 34, 192,
       49, 253, 103, 175, 184, 19, 12, 225, 195, 163, 13, 46, 146, 205, 182, 206, 90, 205,
       46, 250, 185, 199, 180, 100, 117, 199, 1, 252, 3>>>>,
     <<<<97, 98, 52, 101, 100, 102, 50, 100, 97, 97, 97, 48, 101, 53, 53, 56, 56, 52, 102,
       101, 97, 57, 52, 56, 49, 55, 101, 100, 57, 101, 57, 102, 53, 101, 54, 52, 101, 52,
       50, 52, 100, 102, 102, 54, 102, 50, 100, 50, 97, 99, 50, 101, 54, 48, 50, 57, 53,
       101, 53, 50, 102, 48, 102, 48>>,
       <<77, 84, 65, 48, 101, 68, 107, 113, 77, 86, 90, 55, 78, 87, 120, 111, 78, 106, 81,
       120, 77, 68, 65>>,
       <<67, 247, 164, 82, 198, 136, 244, 40, 194, 63, 223, 112, 124, 239, 30, 181, 116,
       94, 153, 18, 220, 53, 92, 243, 198, 7, 194, 208, 100, 53, 78, 15, 170, 113, 35,
       101, 23, 147, 174, 178, 206, 167, 169, 130, 12, 174, 209, 23, 226, 130, 7, 160,
       145, 248, 181, 213, 172, 131, 23, 206, 121, 65, 95, 72>>>>,
     <<<<98, 50, 55, 50, 56, 101, 48, 99, 53, 52, 57, 56, 101, 98, 54, 48, 97, 55, 56, 53,
       49, 56, 52, 53, 55, 100, 51, 53, 101, 49, 53, 56, 50, 100, 102, 100, 102, 98, 99,
       50, 99, 102, 52, 54, 98, 98, 51, 49, 99, 57, 52, 51, 102, 51, 55, 52, 99, 101, 55,
       102, 53, 99, 57, 52>>,
       <<77, 106, 66, 70, 101, 71, 70, 116, 99, 71, 120, 108, 73, 70, 78, 108, 99, 110,
       90, 112, 89, 50, 85, 103, 84, 109, 70, 116, 90, 84, 73, 119, 77, 81>>,
       <<147, 177, 226, 142, 207, 214, 120, 110, 239, 146, 109, 175, 78, 78, 24, 177, 119,
       239, 246, 3, 36, 27, 103, 129, 74, 179, 98, 65, 165, 226, 99, 210, 23, 224, 223,
       82, 55, 144, 72, 5, 35, 95, 182, 237, 169, 147, 114, 21, 134, 210, 201, 72, 253,
       32, 143, 142, 18, 122, 124, 53, 242, 137, 37, 232>>>>,
     <<<<99, 50, 48, 51, 50, 100, 56, 49, 102, 54, 57, 97, 97, 102, 100, 102, 57, 100,
       101, 55, 97, 53, 50, 48, 48, 97, 53, 98, 49, 53, 55, 102, 56, 48, 51, 54, 51, 97,
       54, 50, 49, 100, 101, 101, 53, 57, 49, 102, 56, 51, 98, 102, 55, 98, 48, 97, 51,
       97, 56, 57, 53, 53, 97, 102>>,
       <<77, 106, 66, 76, 77, 71, 81, 121, 77, 86, 115, 116, 80, 83, 86, 83, 90, 88, 69,
       50, 97, 85, 120, 109, 79, 122, 111, 47, 84, 68, 73>>,
       <<39, 221, 64, 145, 4, 237, 191, 178, 229, 66, 222, 227, 204, 72, 142, 105, 120,
       135, 88, 171, 239, 102, 186, 26, 130, 243, 17, 57, 88, 113, 154, 253, 249, 97, 39,
       178, 183, 45, 124, 57, 234, 222, 43, 134, 21, 163, 221, 219, 177, 176, 66, 26, 163,
       15, 157, 212, 249, 234, 117, 59, 112, 232, 25, 215>>>>,
     <<<<99, 50, 48, 51, 50, 100, 56, 49, 102, 54, 57, 97, 97, 102, 100, 102, 57, 100,
       101, 55, 97, 53, 50, 48, 48, 97, 53, 98, 49, 53, 55, 102, 56, 48, 51, 54, 51, 97,
       54, 50, 49, 100, 101, 101, 53, 57, 49, 102, 56, 51, 98, 102, 55, 98, 48, 97, 51,
       97, 56, 57, 53, 53, 97, 102>>,
       <<77, 106, 66, 76, 77, 71, 81, 121, 77, 86, 115, 116, 80, 83, 86, 83, 90, 88, 69,
       50, 97, 85, 120, 109, 79, 122, 111, 47, 84, 68, 73, 119, 77, 103>>,
       <<54, 243, 217, 39, 205, 111, 116, 31, 61, 199, 177, 122, 7, 220, 41, 39, 115, 103,
       78, 53, 81, 204, 163, 163, 66, 91, 222, 240, 105, 117, 120, 108, 4, 214, 198, 155,
       135, 146, 144, 137, 106, 134, 221, 182, 222, 206, 15, 90, 254, 234, 81, 61, 153,
       184, 24, 88, 102, 188, 247, 145, 121, 108, 69, 61>>>>,
     <<<<100, 49, 101, 48, 99, 56, 54, 50, 101, 56, 50, 53, 48, 97, 53, 52, 50, 57, 100,
       55, 102, 102, 49, 54, 54, 52, 56, 100, 49, 53, 97, 57, 100, 98, 98, 51, 102, 53,
       51, 98, 48, 48, 48, 102, 101, 56, 97, 99, 55, 100, 99, 49, 55, 101, 54, 99, 97, 56,
       52, 48, 101, 101, 100, 51>>,
       <<77, 68, 69, 119, 77, 81>>,
       <<183, 217, 97, 79, 27, 199, 121, 158, 71, 173, 230, 204, 39, 117, 145, 140, 192,
       197, 5, 34, 206, 204, 140, 177, 21, 48, 19, 67, 176, 214, 1, 247, 64, 122, 40, 243,
       85, 52, 55, 134, 72, 185, 255, 137, 212, 10, 58, 165, 158, 172, 172, 193, 99, 88,
       72, 125, 100, 211, 197, 193, 198, 70, 255, 125>>>>,
     <<<<100, 49, 101, 48, 99, 56, 54, 50, 101, 56, 50, 53, 48, 97, 53, 52, 50, 57, 100,
       55, 102, 102, 49, 54, 54, 52, 56, 100, 49, 53, 97, 57, 100, 98, 98, 51, 102, 53,
       51, 98, 48, 48, 48, 102, 101, 56, 97, 99, 55, 100, 99, 49, 55, 101, 54, 99, 97, 56,
       52, 48, 101, 101, 100, 51>>,
       <<77, 68, 69, 119, 77, 84, 65, 119>>,
       <<75, 45, 184, 183, 171, 143, 15, 150, 211, 36, 191, 175, 51, 91, 171, 18, 149,
       218, 114, 138, 40, 37, 246, 251, 32, 69, 79, 74, 34, 176, 223, 174, 137, 5, 24, 79,
       181, 150, 124, 38, 104, 87, 58, 225, 110, 157, 231, 150, 83, 213, 107, 67, 150,
       161, 213, 164, 98, 69, 61, 251, 74, 162, 14, 29>>>>,
     <<<<100, 49, 101, 48, 99, 56, 54, 50, 101, 56, 50, 53, 48, 97, 53, 52, 50, 57, 100,
       55, 102, 102, 49, 54, 54, 52, 56, 100, 49, 53, 97, 57, 100, 98, 98, 51, 102, 53,
       51, 98, 48, 48, 48, 102, 101, 56, 97, 99, 55, 100, 99, 49, 55, 101, 54, 99, 97, 56,
       52, 48, 101, 101, 100, 51>>,
       <<77, 68, 89, 48, 77, 81>>,
       <<103, 97, 208, 75, 72, 184, 211, 234, 32, 172, 111, 1, 254, 168, 190, 73, 223, 27,
       0, 204, 200, 27, 117, 62, 155, 52, 176, 92, 165, 32, 213, 4, 241, 125, 70, 49, 96,
       37, 243, 157, 128, 133, 244, 79, 147, 157, 85, 86, 138, 220, 104, 113, 95, 128,
       220, 181, 166, 4, 45, 191, 55, 80, 255, 189>>>>,
     <<<<100, 49, 101, 48, 99, 56, 54, 50, 101, 56, 50, 53, 48, 97, 53, 52, 50, 57, 100,
       55, 102, 102, 49, 54, 54, 52, 56, 100, 49, 53, 97, 57, 100, 98, 98, 51, 102, 53,
       51, 98, 48, 48, 48, 102, 101, 56, 97, 99, 55, 100, 99, 49, 55, 101, 54, 99, 97, 56,
       52, 48, 101, 101, 100, 51>>,
       <<77, 68, 89, 48, 77, 84, 65, 119>>,
       <<217, 181, 33, 251, 110, 30, 168, 216, 192, 44, 148, 209, 129, 72, 35, 22, 138,
       32, 41, 144, 16, 35, 0, 228, 221, 48, 53, 119, 7, 146, 51, 219, 148, 208, 51, 238,
       37, 171, 237, 127, 155, 223, 165, 118, 17, 110, 53, 81, 125, 185, 44, 200, 215,
       215, 54, 19, 211, 248, 186, 168, 128, 82, 74, 81>>>>,
     <<<<100, 49, 101, 48, 99, 56, 54, 50, 101, 56, 50, 53, 48, 97, 53, 52, 50, 57, 100,
       55, 102, 102, 49, 54, 54, 52, 56, 100, 49, 53, 97, 57, 100, 98, 98, 51, 102, 53,
       51, 98, 48, 48, 48, 102, 101, 56, 97, 99, 55, 100, 99, 49, 55, 101, 54, 99, 97, 56,
       52, 48, 101, 101, 100, 51>>,
       <<77, 84, 65, 48, 101, 68, 107, 113, 77, 86, 90, 55, 78, 87, 120, 111, 77, 84, 65,
       120>>,
       <<28, 174, 81, 56, 233, 39, 210, 63, 10, 50, 126, 12, 215, 246, 83, 37, 4, 48, 112,
       101, 0, 217, 253, 0, 82, 223, 195, 211, 157, 231, 236, 119, 5, 247, 185, 192, 213,
       223, 15, 34, 61, 249, 101, 238, 95, 145, 24, 205, 188, 212, 232, 233, 207, 239,
       124, 81, 106, 71, 164, 130, 47, 251, 171, 230>>>>,
     <<<<100, 49, 101, 48, 99, 56, 54, 50, 101, 56, 50, 53, 48, 97, 53, 52, 50, 57, 100,
       55, 102, 102, 49, 54, 54, 52, 56, 100, 49, 53, 97, 57, 100, 98, 98, 51, 102, 53,
       51, 98, 48, 48, 48, 102, 101, 56, 97, 99, 55, 100, 99, 49, 55, 101, 54, 99, 97, 56,
       52, 48, 101, 101, 100, 51>>,
       <<77, 84, 65, 48, 101, 68, 107, 113, 77, 86, 90, 55, 78, 87, 120, 111, 77, 84, 65,
       120, 77, 68, 65>>,
       <<149, 43, 62, 82, 238, 32, 228, 177, 9, 167, 234, 8, 44, 162, 242, 149, 124, 183,
       222, 121, 155, 66, 33, 203, 165, 164, 36, 155, 197, 36, 76, 143, 110, 225, 146,
       130, 67, 5, 10, 119, 208, 48, 167, 56, 60, 149, 155, 214, 18, 20, 22, 129, 220, 84,
       213, 194, 178, 56, 161, 142, 179, 11, 103, 36>>>>,
     <<<<100, 49, 101, 48, 99, 56, 54, 50, 101, 56, 50, 53, 48, 97, 53, 52, 50, 57, 100,
       55, 102, 102, 49, 54, 54, 52, 56, 100, 49, 53, 97, 57, 100, 98, 98, 51, 102, 53,
       51, 98, 48, 48, 48, 102, 101, 56, 97, 99, 55, 100, 99, 49, 55, 101, 54, 99, 97, 56,
       52, 48, 101, 101, 100, 51>>,
       <<77, 84, 65, 48, 101, 68, 107, 113, 77, 86, 90, 55, 78, 87, 120, 111, 78, 106, 81,
       120>>,
       <<178, 204, 152, 219, 20, 167, 193, 80, 44, 148, 24, 216, 125, 56, 214, 62, 240,
       60, 135, 68, 133, 37, 19, 225, 217, 160, 14, 95, 178, 59, 95, 171, 215, 196, 42,
       120, 162, 167, 4, 78, 86, 11, 99, 118, 240, 104, 233, 22, 136, 146, 27, 216, 32,
       244, 156, 251, 122, 176, 98, 55, 227, 222, 27, 255>>>>,
     <<<<100, 49, 101, 48, 99, 56, 54, 50, 101, 56, 50, 53, 48, 97, 53, 52, 50, 57, 100,
       55, 102, 102, 49, 54, 54, 52, 56, 100, 49, 53, 97, 57, 100, 98, 98, 51, 102, 53,
       51, 98, 48, 48, 48, 102, 101, 56, 97, 99, 55, 100, 99, 49, 55, 101, 54, 99, 97, 56,
       52, 48, 101, 101, 100, 51>>,
       <<77, 84, 65, 48, 101, 68, 107, 113, 77, 86, 90, 55, 78, 87, 120, 111, 78, 106, 81,
       120, 77, 68, 65>>,
       <<190, 157, 139, 33, 58, 146, 175, 54, 36, 249, 255, 142, 11, 61, 163, 157, 252,
       170, 16, 143, 107, 172, 17, 101, 236, 49, 44, 91, 4, 149, 58, 136, 74, 6, 88, 180,
       152, 43, 201, 108, 233, 22, 161, 147, 75, 106, 156, 54, 190, 17, 95, 48, 94, 137,
       70, 10, 122, 220, 106, 60, 106, 200, 151, 127>>>>,
     <<<<100, 53, 101, 56, 53, 49, 100, 99, 98, 54, 100, 99, 57, 52, 98, 53, 51, 97, 99,
       49, 97, 51, 53, 51, 54, 54, 101, 56, 50, 53, 100, 56, 48, 49, 99, 52, 51, 48, 102,
       50, 52, 99, 100, 53, 57, 98, 99, 57, 53, 99, 99, 50, 97, 50, 98, 53, 102, 53, 102,
       52, 56, 56, 50, 51>>,
       <<77, 106, 65, 114, 89, 106, 104, 83, 102, 106, 57, 110, 86, 106, 74, 56, 75, 122,
       66, 110, 100, 70, 69, 56, 85, 85, 86, 50, 80, 68, 89, 48, 77, 84, 65, 119>>,
       <<1, 49, 76, 15, 11, 127, 4, 79, 124, 120, 244, 60, 208, 10, 94, 187, 76, 115, 27,
       133, 55, 173, 253, 94, 68, 192, 46, 185, 211, 93, 201, 17, 190, 31, 156, 11, 210,
       192, 155, 77, 117, 89, 36, 74, 98, 123, 60, 67, 13, 3, 149, 127, 0, 38, 20, 146,
       98, 34, 167, 182, 57, 61, 122, 196>>>>,
     <<<<100, 100, 52, 53, 55, 55, 56, 97, 101, 52, 53, 99, 55, 56, 101, 52, 98, 55, 97,
       54, 99, 102, 52, 56, 51, 48, 100, 51, 99, 57, 102, 55, 48, 101, 55, 100, 55, 54,
       99, 54, 100, 101, 102, 51, 51, 50, 50, 56, 51, 49, 51, 49, 56, 48, 48, 98, 97, 102,
       53, 100, 98, 55, 53, 102>>,
       <<77, 68, 69, 119, 77, 81>>,
       <<177, 128, 88, 174, 235, 242, 69, 150, 126, 156, 52, 90, 89, 199, 83, 105, 241,
       213, 97, 78, 25, 101, 34, 105, 243, 33, 197, 250, 124, 155, 100, 126, 54, 161, 206,
       158, 30, 200, 245, 153, 32, 45, 133, 148, 172, 254, 251, 194, 16, 216, 251, 106,
       230, 22, 164, 177, 240, 72, 219, 163, 64, 184, 234, 227>>>>,
     <<<<100, 100, 52, 53, 55, 55, 56, 97, 101, 52, 53, 99, 55, 56, 101, 52, 98, 55, 97,
       54, 99, 102, 52, 56, 51, 48, 100, 51, 99, 57, 102, 55, 48, 101, 55, 100, 55, 54,
       99, 54, 100, 101, 102, 51, 51, 50, 50, 56, 51, 49, 51, 49, 56, 48, 48, 98, 97, 102,
       53, 100, 98, 55, 53, 102>>,
       <<77, 68, 69, 119, 77, 84, 65, 119>>,
       <<145, 93, 89, 57, 156, 184, 170, 232, 122, 176, 241, 214, 60, 62, 0, 203, 120, 36,
       26, 50, 31, 222, 246, 101, 242, 136, 191, 169, 75, 189, 98, 34, 214, 151, 146, 181,
       203, 103, 195, 234, 158, 150, 72, 61, 232, 242, 51, 51, 222, 44, 146, 225, 104, 21,
       68, 77, 35, 111, 233, 191, 56, 40, 29, 215>>>>,
     <<<<100, 100, 52, 53, 55, 55, 56, 97, 101, 52, 53, 99, 55, 56, 101, 52, 98, 55, 97,
       54, 99, 102, 52, 56, 51, 48, 100, 51, 99, 57, 102, 55, 48, 101, 55, 100, 55, 54,
       99, 54, 100, 101, 102, 51, 51, 50, 50, 56, 51, 49, 51, 49, 56, 48, 48, 98, 97, 102,
       53, 100, 98, 55, 53, 102>>,
       <<77, 68, 89, 48, 77, 81>>,
       <<84, 55, 111, 47, 54, 235, 238, 32, 255, 78, 121, 218, 102, 68, 29, 136, 110, 228,
       63, 114, 8, 219, 40, 64, 160, 53, 7, 67, 84, 248, 161, 139, 118, 212, 121, 162,
       213, 204, 208, 117, 0, 136, 112, 26, 134, 210, 41, 181, 185, 1, 133, 245, 166, 245,
       230, 69, 240, 33, 141, 207, 31, 139, 206, 203>>>>,
     <<<<100, 100, 52, 53, 55, 55, 56, 97, 101, 52, 53, 99, 55, 56, 101, 52, 98, 55, 97,
       54, 99, 102, 52, 56, 51, 48, 100, 51, 99, 57, 102, 55, 48, 101, 55, 100, 55, 54,
       99, 54, 100, 101, 102, 51, 51, 50, 50, 56, 51, 49, 51, 49, 56, 48, 48, 98, 97, 102,
       53, 100, 98, 55, 53, 102>>,
       <<77, 68, 89, 48, 77, 84, 65, 119>>,
       <<14, 151, 37, 112, 221, 30, 141, 210, 53, 173, 212, 91, 208, 72, 129, 45, 29, 8,
       33, 207, 119, 4, 12, 210, 163, 120, 132, 202, 216, 192, 252, 71, 254, 205, 5, 5,
       213, 103, 145, 196, 42, 143, 71, 41, 3, 148, 149, 168, 17, 136, 114, 220, 68, 106,
       194, 100, 172, 144, 92, 230, 21, 123, 67, 68>>>>,
     <<<<100, 100, 52, 53, 55, 55, 56, 97, 101, 52, 53, 99, 55, 56, 101, 52, 98, 55, 97,
       54, 99, 102, 52, 56, 51, 48, 100, 51, 99, 57, 102, 55, 48, 101, 55, 100, 55, 54,
       99, 54, 100, 101, 102, 51, 51, 50, 50, 56, 51, 49, 51, 49, 56, 48, 48, 98, 97, 102,
       53, 100, 98, 55, 53, 102>>,
       <<77, 84, 65, 48, 101, 68, 107, 113, 77, 86, 90, 55, 78, 87, 120, 111, 77, 84, 65,
       120>>,
       <<131, 28, 69, 252, 32, 56, 7, 194, 219, 196, 106, 155, 101, 76, 77, 178, 192, 120,
       88, 116, 146, 174, 132, 246, 82, 240, 130, 112, 143, 44, 44, 199, 68, 109, 142,
       159, 156, 100, 6, 15, 129, 102, 103, 191, 171, 215, 187, 15, 228, 141, 182, 4, 68,
       111, 184, 30, 146, 209, 205, 67, 20, 44, 128, 113>>>>,
     <<<<100, 100, 52, 53, 55, 55, 56, 97, 101, 52, 53, 99, 55, 56, 101, 52, 98, 55, 97,
       54, 99, 102, 52, 56, 51, 48, 100, 51, 99, 57, 102, 55, 48, 101, 55, 100, 55, 54,
       99, 54, 100, 101, 102, 51, 51, 50, 50, 56, 51, 49, 51, 49, 56, 48, 48, 98, 97, 102,
       53, 100, 98, 55, 53, 102>>,
       <<77, 84, 65, 48, 101, 68, 107, 113, 77, 86, 90, 55, 78, 87, 120, 111, 77, 84, 65,
       120, 77, 68, 65>>,
       <<15, 194, 217, 46, 88, 214, 179, 75, 13, 175, 129, 160, 146, 18, 152, 46, 195, 4,
       154, 64, 162, 79, 133, 25, 42, 146, 94, 191, 170, 43, 194, 253, 3, 159, 247, 196,
       231, 218, 168, 14, 104, 89, 12, 253, 15, 118, 177, 1, 165, 117, 176, 198, 247, 21,
       209, 200, 193, 255, 241, 98, 209, 35, 103, 56>>>>,
     <<<<100, 100, 52, 53, 55, 55, 56, 97, 101, 52, 53, 99, 55, 56, 101, 52, 98, 55, 97,
       54, 99, 102, 52, 56, 51, 48, 100, 51, 99, 57, 102, 55, 48, 101, 55, 100, 55, 54,
       99, 54, 100, 101, 102, 51, 51, 50, 50, 56, 51, 49, 51, 49, 56, 48, 48, 98, 97, 102,
       53, 100, 98, 55, 53, 102>>,
       <<77, 84, 65, 48, 101, 68, 107, 113, 77, 86, 90, 55, 78, 87, 120, 111, 78, 106, 81,
       120>>,
       <<182, 120, 25, 219, 183, 179, 37, 236, 38, 168, 131, 180, 249, 188, 119, 189, 124,
       232, 21, 7, 78, 232, 121, 61, 215, 143, 212, 94, 236, 36, 242, 30, 127, 111, 72,
       201, 87, 129, 213, 86, 10, 122, 17, 212, 108, 228, 111, 44, 177, 226, 42, 215, 159,
       161, 45, 108, 87, 203, 24, 135, 34, 20, 3, 1>>>>,
     <<<<100, 100, 52, 53, 55, 55, 56, 97, 101, 52, 53, 99, 55, 56, 101, 52, 98, 55, 97,
       54, 99, 102, 52, 56, 51, 48, 100, 51, 99, 57, 102, 55, 48, 101, 55, 100, 55, 54,
       99, 54, 100, 101, 102, 51, 51, 50, 50, 56, 51, 49, 51, 49, 56, 48, 48, 98, 97, 102,
       53, 100, 98, 55, 53, 102>>,
       <<77, 84, 65, 48, 101, 68, 107, 113, 77, 86, 90, 55, 78, 87, 120, 111, 78, 106, 81,
       120, 77, 68, 65>>,
       <<229, 78, 48, 85, 208, 1, 152, 49, 93, 231, 72, 192, 211, 202, 149, 167, 141, 129,
       75, 185, 252, 140, 93, 185, 206, 82, 15, 99, 228, 32, 1, 112, 162, 56, 142, 140,
       235, 145, 23, 97, 19, 72, 150, 96, 16, 186, 66, 130, 233, 78, 186, 45, 69, 128,
       209, 99, 70, 210, 141, 64, 37, 14, 90, 107>>>>,
     <<<<101, 57, 56, 57, 99, 101, 51, 53, 57, 52, 53, 97, 98, 97, 101, 56, 56, 56, 101,
       99, 97, 50, 52, 57, 98, 49, 98, 102, 56, 97, 52, 48, 57, 56, 100, 100, 102, 101,
       51, 54, 57, 57, 99, 52, 54, 50, 100, 97, 97, 102, 99, 102, 54, 52, 53, 102, 48, 49,
       99, 55, 48, 56, 57, 99>>,
       <<78, 68, 66, 85, 99, 109, 85, 50, 76, 84, 111, 49, 77, 106, 112, 82, 84, 85, 48,
       53, 78, 122, 48, 115, 75, 86, 116, 97, 87, 108, 57, 109, 101, 121, 86, 82, 83, 71,
       66, 77, 80, 106, 57, 108, 100, 83, 53, 55, 81, 105, 73, 111, 81, 87, 104, 85, 78,
       65>>,
       <<97, 18, 237, 128, 116, 247, 130, 35, 156, 234, 253, 121, 156, 227, 248, 183, 91,
       5, 137, 243, 169, 75, 7, 132, 102, 45, 63, 207, 60, 182, 233, 78, 179, 185, 56,
       149, 10, 231, 136, 7, 211, 126, 243, 23, 237, 211, 59, 183, 233, 253, 2, 35, 41,
       149, 2, 196, 159, 229, 93, 166, 237, 17, 186, 228>>>>,
     <<<<101, 57, 56, 57, 99, 101, 51, 53, 57, 52, 53, 97, 98, 97, 101, 56, 56, 56, 101,
       99, 97, 50, 52, 57, 98, 49, 98, 102, 56, 97, 52, 48, 57, 56, 100, 100, 102, 101,
       51, 54, 57, 57, 99, 52, 54, 50, 100, 97, 97, 102, 99, 102, 54, 52, 53, 102, 48, 49,
       99, 55, 48, 56, 57, 99>>,
       <<78, 68, 66, 85, 99, 109, 85, 50, 76, 84, 111, 49, 77, 106, 112, 82, 84, 85, 48,
       53, 78, 122, 48, 115, 75, 86, 116, 97, 87, 108, 57, 109, 101, 121, 86, 82, 83, 71,
       66, 77, 80, 106, 57, 108, 100, 83, 53, 55, 81, 105, 73, 111, 81, 87, 104, 85, 78,
       68, 65, 48>>,
       <<6, 15, 167, 68, 159, 125, 147, 82, 172, 146, 87, 166, 31, 53, 28, 156, 234, 67,
       56, 64, 90, 92, 165, 128, 81, 251, 211, 93, 226, 238, 25, 151, 114, 11, 82, 104,
       174, 53, 176, 60, 229, 41, 203, 226, 158, 179, 251, 219, 213, 193, 163, 174, 75,
       111, 21, 99, 31, 114, 180, 103, 21, 158, 66, 56>>>>,
     <<<<102, 50, 99, 57, 99, 48, 54, 99, 52, 56, 102, 57, 102, 56, 56, 98, 53, 97, 52,
       55, 98, 51, 101, 50, 54, 102, 49, 56, 50, 55, 51, 51, 51, 53, 48, 54, 51, 52, 49,
       100, 100, 52, 54, 57, 102, 52, 55, 53, 101, 98, 100, 53, 99, 54, 50, 101, 54, 56,
       99, 49, 52, 48, 51, 49>>,
       <<77, 122, 66, 49, 73, 107, 81, 121, 87, 86, 81, 121, 90, 106, 86, 88, 81, 105, 78,
       109, 82, 69, 111, 43, 97, 106, 78, 108, 102, 110, 77, 115, 86, 105, 99, 110, 83,
       70, 99, 47, 79, 105, 103, 122>>,
       <<13, 26, 211, 9, 243, 226, 87, 45, 126, 240, 209, 6, 136, 209, 126, 74, 60, 136,
       3, 25, 52, 1, 128, 71, 119, 2, 54, 41, 166, 84, 156, 249, 90, 212, 212, 152, 1,
       132, 151, 61, 27, 26, 168, 226, 198, 163, 117, 48, 222, 156, 138, 208, 32, 95, 3,
       197, 115, 181, 47, 144, 11, 109, 89, 129>>>>,
     <<<<102, 50, 99, 57, 99, 48, 54, 99, 52, 56, 102, 57, 102, 56, 56, 98, 53, 97, 52,
       55, 98, 51, 101, 50, 54, 102, 49, 56, 50, 55, 51, 51, 51, 53, 48, 54, 51, 52, 49,
       100, 100, 52, 54, 57, 102, 52, 55, 53, 101, 98, 100, 53, 99, 54, 50, 101, 54, 56,
       99, 49, 52, 48, 51, 49>>,
       <<77, 122, 66, 49, 73, 107, 81, 121, 87, 86, 81, 121, 90, 106, 86, 88, 81, 105, 78,
       109, 82, 69, 111, 43, 97, 106, 78, 108, 102, 110, 77, 115, 86, 105, 99, 110, 83,
       70, 99, 47, 79, 105, 103, 122, 77, 68, 77>>,
       <<217, 86, 80, 231, 38, 164, 89, 109, 253, 66, 208, 223, 91, 15, 159, 37, 246, 212,
       145, 49, 58, 236, 97, 191, 124, 141, 18, 11, 75, 113, 116, 59, 147, 236, 137, 254,
       40, 131, 116, 115, 180, 51, 49, 195, 14, 24, 227, 11, 106, 77, 127, 128, 202, 99,
       66, 63, 218, 116, 3, 177, 69, 32, 122, 228>>>>,
     <<<<102, 57, 97, 101, 50, 100, 101, 48, 102, 52, 102, 57, 48, 57, 52, 49, 101, 99,
       53, 51, 98, 50, 99, 48, 51, 53, 100, 50, 56, 48, 101, 55, 100, 49, 54, 97, 99, 102,
       97, 57, 52, 56, 53, 56, 52, 98, 48, 48, 52, 51, 99, 51, 98, 51, 48, 56, 57, 49, 97,
       100, 50, 50, 49, 57>>,
       <<77, 68, 69, 119, 77, 81>>,
       <<159, 43, 37, 210, 172, 65, 254, 235, 186, 79, 154, 194, 6, 34, 58, 248, 49, 159,
       24, 139, 72, 244, 118, 218, 61, 94, 135, 110, 195, 71, 109, 212, 149, 111, 70, 182,
       166, 65, 8, 213, 135, 197, 57, 229, 36, 204, 60, 231, 43, 195, 25, 177, 181, 101,
       158, 214, 146, 58, 169, 103, 159, 203, 194, 132>>>>,
     <<<<102, 57, 97, 101, 50, 100, 101, 48, 102, 52, 102, 57, 48, 57, 52, 49, 101, 99,
       53, 51, 98, 50, 99, 48, 51, 53, 100, 50, 56, 48, 101, 55, 100, 49, 54, 97, 99, 102,
       97, 57, 52, 56, 53, 56, 52, 98, 48, 48, 52, 51, 99, 51, 98, 51, 48, 56, 57, 49, 97,
       100, 50, 50, 49, 57>>,
       <<77, 68, 69, 119, 77, 84, 65, 119>>,
       <<170, 231, 181, 133, 194, 0, 90, 18, 198, 168, 20, 184, 36, 236, 163, 54, 220,
       175, 206, 95, 69, 120, 167, 197, 40, 138, 31, 159, 34, 56, 142, 182, 206, 175, 37,
       162, 37, 19, 216, 96, 163, 202, 25, 160, 208, 193, 162, 118, 145, 81, 44, 57, 198,
       202, 240, 221, 159, 91, 172, 44, 21, 124, 103, 157>>>>,
     <<<<102, 57, 97, 101, 50, 100, 101, 48, 102, 52, 102, 57, 48, 57, 52, 49, 101, 99,
       53, 51, 98, 50, 99, 48, 51, 53, 100, 50, 56, 48, 101, 55, 100, 49, 54, 97, 99, 102,
       97, 57, 52, 56, 53, 56, 52, 98, 48, 48, 52, 51, 99, 51, 98, 51, 48, 56, 57, 49, 97,
       100, 50, 50, 49, 57>>,
       <<77, 68, 89, 48, 77, 81>>,
       <<85, 180, 103, 213, 220, 131, 7, 225, 42, 168, 129, 167, 252, 239, 83, 154, 92,
       145, 142, 252, 97, 97, 127, 5, 254, 89, 201, 39, 56, 247, 115, 237, 184, 110, 159,
       26, 62, 77, 180, 244, 144, 7, 238, 153, 204, 254, 236, 111, 91, 44, 36, 47, 184,
       79, 192, 109, 13, 61, 34, 205, 33, 155, 141, 197>>>>,
     <<<<102, 57, 97, 101, 50, 100, 101, 48, 102, 52, 102, 57, 48, 57, 52, 49, 101, 99,
       53, 51, 98, 50, 99, 48, 51, 53, 100, 50, 56, 48, 101, 55, 100, 49, 54, 97, 99, 102,
       97, 57, 52, 56, 53, 56, 52, 98, 48, 48, 52, 51, 99, 51, 98, 51, 48, 56, 57, 49, 97,
       100, 50, 50, 49, 57>>,
       <<77, 68, 89, 48, 77, 84, 65, 119>>,
       <<135, 36, 200, 55, 149, 7, 239, 109, 144, 51, 220, 215, 33, 210, 94, 217, 6, 53,
       203, 210, 9, 128, 243, 206, 139, 105, 11, 255, 205, 36, 69, 106, 168, 44, 44, 200,
       73, 137, 143, 99, 158, 15, 45, 123, 160, 77, 140, 240, 250, 25, 55, 242, 4, 165,
       89, 190, 236, 139, 182, 23, 131, 16, 199, 46>>>>,
     <<<<102, 57, 97, 101, 50, 100, 101, 48, 102, 52, 102, 57, 48, 57, 52, 49, 101, 99,
       53, 51, 98, 50, 99, 48, 51, 53, 100, 50, 56, 48, 101, 55, 100, 49, 54, 97, 99, 102,
       97, 57, 52, 56, 53, 56, 52, 98, 48, 48, 52, 51, 99, 51, 98, 51, 48, 56, 57, 49, 97,
       100, 50, 50, 49, 57>>,
       <<77, 84, 65, 48, 101, 68, 107, 113, 77, 86, 90, 55, 78, 87, 120, 111, 77, 84, 65,
       120>>,
       <<181, 50, 13, 40, 214, 120, 18, 114, 65, 42, 48, 147, 56, 246, 66, 196, 209, 105,
       46, 16, 168, 91, 51, 83, 110, 63, 235, 218, 147, 237, 37, 33, 41, 6, 87, 69, 21,
       141, 188, 225, 202, 166, 217, 154, 186, 99, 80, 181, 139, 218, 161, 233, 74, 168,
       70, 167, 97, 48, 37, 122, 86, 226, 202, 143>>>>,
     <<<<102, 57, 97, 101, 50, 100, 101, 48, 102, 52, 102, 57, 48, 57, 52, 49, 101, 99,
       53, 51, 98, 50, 99, 48, 51, 53, 100, 50, 56, 48, 101, 55, 100, 49, 54, 97, 99, 102,
       97, 57, 52, 56, 53, 56, 52, 98, 48, 48, 52, 51, 99, 51, 98, 51, 48, 56, 57, 49, 97,
       100, 50, 50, 49, 57>>,
       <<77, 84, 65, 48, 101, 68, 107, 113, 77, 86, 90, 55, 78, 87, 120, 111, 77, 84, 65,
       120, 77, 68, 65>>,
       <<17, 236, 183, 106, 230, 45, 109, 57, 58, 185, 201, 64, 204, 203, 196, 101, 203,
       116, 242, 231, 8, 81, 119, 75, 10, 52, 88, 176, 7, 165, 145, 219, 221, 226, 155, 7,
       62, 94, 112, 134, 242, 59, 114, 18, 191, 2, 109, 204, 87, 132, 133, 134, 123, 104,
       106, 55, 170, 174, 247, 4, 186, 202, 38, 82>>>>,
     <<<<102, 57, 97, 101, 50, 100, 101, 48, 102, 52, 102, 57, 48, 57, 52, 49, 101, 99,
       53, 51, 98, 50, 99, 48, 51, 53, 100, 50, 56, 48, 101, 55, 100, 49, 54, 97, 99, 102,
       97, 57, 52, 56, 53, 56, 52, 98, 48, 48, 52, 51, 99, 51, 98, 51, 48, 56, 57, 49, 97,
       100, 50, 50, 49, 57>>,
       <<77, 84, 65, 48, 101, 68, 107, 113, 77, 86, 90, 55, 78, 87, 120, 111, 78, 106, 81,
       120>>,
       <<227, 129, 90, 171, 56, 95, 26, 169, 165, 240, 131, 200, 48, 8, 137, 146, 31, 148,
       42, 76, 76, 51, 162, 77, 161, 130, 170, 211, 47, 11, 88, 175, 218, 247, 178, 75,
       185, 105, 115, 4, 145, 165, 216, 239, 221, 209, 170, 98, 138, 108, 108, 23, 249,
       124, 178, 188, 115, 194, 25, 229, 22, 39, 253, 42>>>>,
     <<<<102, 57, 97, 101, 50, 100, 101, 48, 102, 52, 102, 57, 48, 57, 52, 49, 101, 99,
       53, 51, 98, 50, 99, 48, 51, 53, 100, 50, 56, 48, 101, 55, 100, 49, 54, 97, 99, 102,
       97, 57, 52, 56, 53, 56, 52, 98, 48, 48, 52, 51, 99, 51, 98, 51, 48, 56, 57, 49, 97,
       100, 50, 50, 49, 57>>,
       <<77, 84, 65, 48, 101, 68, 107, 113, 77, 86, 90, 55, 78, 87, 120, 111, 78, 106, 81,
       120, 77, 68, 65>>,
       <<124, 136, 8, 181, 11, 197, 193, 210, 197, 63, 141, 228, 192, 145, 52, 56, 217,
       49, 218, 197, 31, 119, 54, 51, 145, 16, 242, 77, 167, 154, 150, 62, 196, 87, 33,
       152, 35, 216, 55, 33, 241, 70, 2, 33, 192, 212, 177, 65, 238, 61, 187, 170, 209,
       63, 253, 153, 37, 243, 155, 153, 148, 141, 82, 72>>>>}

\* the table as a function of <<key, message>>
HmacSha512Tag ==
    [q \in {<<e[1], e[2]>> : e \in HmacSha512Values} |->
        (CHOOSE e \in HmacSha512Values : e[1] = q[1] /\ e[2] = q[2])[3]]

\* HmacSha512::new_from_slice(key), update(msg), finalize(): any key length is accepted
HmacSha512(key, msg) == Ok(HmacSha512Tag[<<key, msg>>])

(***************************************************************************)
(* master_secret.rs                                                        *)
(***************************************************************************)
\* a salt that is fresh for every invocation (as SaltString::generate would give)
MasterSecret_new_fresh_salt(user_id, master_password_plain) ==
    LET salt == base64_encode(to_string(calls) \o to_string(Len(user_id)) \o user_id)
        salt_string == SaltString_from_b64(salt)
    IN IF ~salt_string.ok THEN salt_string
       ELSE LET raw == base64_decode(salt_string.val)
            IN IF ~raw.ok THEN raw
               ELSE Argon2id(master_password_plain, raw.val)

\* str::trim, for ASCII spaces
trim(s) ==
    LET keep == {i \in 1..Len(s) : s[i] # 32}
    IN IF keep = {} THEN <<>>
       ELSE SubSeq(s, CHOOSE i \in keep : \A j \in keep : i <= j,
                      CHOOSE i \in keep : \A j \in keep : i >= j)

\* a salt built from the user id with the spaces around it trimmed off
MasterSecret_salt_input_trimmed(user_id) ==
    to_string(Len(trim(user_id))) \o trim(user_id)

\* the argument of encode in MasterSecret::new:
\* user_id.len().to_string() + &user_id.to_string()
MasterSecret_salt_input(user_id) == to_string(Len(user_id)) \o user_id

\* the local `salt` of MasterSecret::new
MasterSecret_salt(user_id) == base64_encode(MasterSecret_salt_input(user_id))

\* MasterSecret::new.  Each `?` returns the callee's error as it is; the tag is
\* always present after hash_password, so ok_or(DerivePassError::Secret) never
\* fires.
MasterSecret_new(user_id, master_password_plain) ==
    LET salt == MasterSecret_salt(user_id)
        salt_string == SaltString_from_b64(salt)
    IN IF ~salt_string.ok THEN salt_string
       ELSE LET raw == base64_decode(salt_string.val)
            IN IF ~raw.ok THEN raw
               ELSE Argon2id(master_password_plain, raw.val)

MasterSecretHexLen == 64

\* MasterSecret::from_str
MasterSecret_from_str(s) ==
    IF Len(s) = MasterSecretHexLen
    THEN LET b == hex_to_bytes(s)
         IN IF b.ok THEN b ELSE Err("DerivePassError", "Secret")
    ELSE Err("DerivePassError", "Secret")

\* MasterSecret::as_hex
as_hex(master_secret_bytes) == bytes_to_hex(master_secret_bytes)

(***************************************************************************)
(* service_secret.rs                                                       *)
(***************************************************************************)
\* a message that leaves the password length out
ServiceSecret_salt_input_no_length(service_id, generation, password_length) ==
    to_string(Len(service_id)) \o service_id \o generation

\* the argument of encode in ServiceSecret::new: service_id.len().to_string()
\* + &service_id.to_string() + &password_length.to_string() + &generation.to_string();
\* generation is the Generation's value as Generation::fmt prints it,
\* PasswordLength::fmt prints the u8
ServiceSecret_salt_input(service_id, generation, password_length) ==
    to_string(Len(service_id)) \o service_id \o to_string(password_length) \o generation

\* the local `salt` of ServiceSecret::new, the message given to HMAC
ServiceSecret_salt(service_id, generation, password_length) ==
    base64_encode(ServiceSecret_salt_input(service_id, generation, password_length))

\* ServiceSecret::new
ServiceSecret_new(master_secret_bytes, service_id, generation, password_length) ==
    LET salt == ServiceSecret_salt(service_id, generation, password_length)
    IN HmacSha512(as_hex(master_secret_bytes), salt)

ServiceSecretHexLen == 128

\* a length check copied from MasterSecret::from_str: 64 characters, 32 bytes
ServiceSecret_from_str_master_len(s) ==
    IF Len(s) = MasterSecretHexLen
    THEN LET b == hex_to_bytes(s)
         IN IF b.ok THEN b ELSE Err("DerivePassError", "Secret")
    ELSE Err("DerivePassError", "Secret")

\* ServiceSecret::from_str
ServiceSecret_from_str(s) ==
    IF Len(s) = ServiceSecretHexLen
    THEN LET b == hex_to_bytes(s)
         IN IF b.ok THEN b ELSE Err("DerivePassError", "Secret")
    ELSE Err("DerivePassError", "Secret")

(***************************************************************************)
(* derived_pass.rs                                                         *)
(***************************************************************************)
\* a lookup in the alphabet of all four presets, whatever was selected
get_password_char_all_presets(char_pool, secret_byte) ==
    LET all == SMALL_LETTERS \o CAPITAL_LETTERS \o NUMBERS \o SPECIAL_CHARS
    IN Ok(all[(secret_byte % Len(all)) + 1])

\* DerivedPass::get_password_char.  A CharSet holds ASCII only, so its n-th char
\* is its n-th byte; an empty pool would panic on the remainder.
get_password_char(char_pool, secret_byte) ==
    IF Len(char_pool) = 0 THEN Err("panic", "remainder with a divisor of zero")
    ELSE LET n == secret_byte % Len(char_pool)
         IN IF n < Len(char_pool) THEN Ok(char_pool[n + 1])
            ELSE Err("DerivePassError", "Char")

\* a loop body that reads every second byte of the secret
loop_body_stride(service_secret_bytes, char_set, i) ==
    IF 2 * i >= Len(service_secret_bytes) THEN Err("DerivePassError", "Char")
    ELSE get_password_char(char_set, service_secret_bytes[2 * i + 1])

\* iteration i of the for loop of DerivedPass::new: the character it pushes, or the
\* error it returns with
loop_body(service_secret_bytes, char_set, i) ==
    IF i >= Len(service_secret_bytes) THEN Err("DerivePassError", "Char")
    ELSE get_password_char(char_set, service_secret_bytes[i + 1])

\* a loop over the inclusive range 0..=password_length
DerivedPass_new_inclusive(service_secret_bytes, char_set, password_length) ==
    IF Len(service_secret_bytes) < password_length
    THEN Err("DerivePassError", "Char")
    ELSE LET failing == {i \in 0..password_length :
                            ~loop_body(service_secret_bytes, char_set, i).ok}
         IN IF failing # {}
            THEN loop_body(service_secret_bytes, char_set,
                           CHOOSE i \in failing : \A j \in failing : i <= j)
            ELSE Ok([k \in 1..(password_length + 1) |->
                        loop_body(service_secret_bytes, char_set, k - 1).val])

\* DerivedPass::new: the loop runs i = 0 .. password_length - 1 and returns at the
\* first iteration that fails
DerivedPass_new(service_secret_bytes, char_set, password_length) ==
    IF Len(service_secret_bytes) < password_length
    THEN Err("DerivePassError", "Char")
    ELSE LET failing == {i \in 0..(password_length - 1) :
                            ~loop_body(service_secret_bytes, char_set, i).ok}
         IN IF failing # {}
            THEN loop_body(service_secret_bytes, char_set,
                           CHOOSE i \in failing : \A j \in failing : i <= j)
            ELSE Ok([k \in 1..password_length |->
                        loop_body(service_secret_bytes, char_set, k - 1).val])
(***************************************************************************)
(* Inputs tried by the model.                                              *)
(***************************************************************************)
FillLetters(n) == [i \in 1..n |-> 97 + (i % 26)]

FillDigits(n) == [i \in 1..n |-> 48 + (i % 10)]

\* four two-byte characters: 4 chars, 8 bytes
Utf8Id == <<195, 169, 195, 169, 195, 169, 195, 169>>

\* the (user_id, master password) pairs of can_generate_valid_master_secret
\* (master_secret.rs tests); the first is <<VectorUserID, VectorMasterPassword>>
MasterSecretVectors ==
    {<<<<52, 120, 57, 42, 49, 86, 123, 53, 108, 104>>,
       <<60, 74, 57, 49, 61, 48, 105, 67, 51, 96>>>>,
     <<<<75, 48, 100, 50, 49, 91, 45, 61, 37, 82, 101, 113, 54, 105, 76, 102, 59, 58,
       63, 76>>,
       <<55, 115, 52, 36, 116, 78, 57, 115, 72, 109, 111, 97, 92, 124, 116, 84, 112, 41,
       82, 83>>>>,
     <<<<117, 34, 68, 50, 89, 84, 50, 102, 53, 87, 66, 35, 102, 68, 74, 62, 106, 51,
       101, 126, 115, 44, 86, 39, 39, 72, 87, 63, 58, 40>>,
       <<53, 52, 86, 90, 194, 163, 49, 60, 81, 85, 57, 35, 106, 112, 68, 90, 50, 117,
       47, 36, 54, 70, 106, 88, 106, 71, 56, 110, 59, 78, 45>>>>,
     <<<<84, 114, 101, 54, 45, 58, 53, 50, 58, 81, 77, 77, 57, 55, 61, 44, 41, 91, 90,
       90, 95, 102, 123, 37, 81, 72, 96, 76, 62, 63, 101, 117, 46, 123, 66, 34, 40, 65,
       104, 84>>,
       <<57, 43, 78, 79, 57, 38, 86, 70, 100, 113, 84, 75, 56, 100, 80, 59, 101, 103,
       78, 79, 117, 66, 98, 101, 57, 56, 53, 42, 40, 33, 80, 61, 50, 81, 67, 49, 44, 79,
       62, 70>>>>}

\* the (master secret in hex, service_id, generation, password_length) cases of
\* can_generate_valid_service_secret (service_secret.rs tests)
ServiceSecretVectors ==
    {<<<<55, 97, 100, 53, 100, 56, 100, 102, 57, 102, 56, 48, 102, 55, 52, 57, 102, 100,
       52, 51, 49, 54, 99, 57, 54, 56, 49, 55, 49, 57, 101, 98, 55, 98, 97, 50, 57, 99,
       50, 52, 99, 51, 56, 51, 49, 49, 100, 48, 101, 57, 98, 98, 53, 54, 48, 52, 55, 48,
       50, 52, 97, 98, 57, 49>>,
       <<52, 120, 57, 42, 49, 86, 123, 53, 108, 104>>,
       <<49>>,
       <<49, 48>>>>,
     <<<<99, 50, 48, 51, 50, 100, 56, 49, 102, 54, 57, 97, 97, 102, 100, 102, 57, 100,
       101, 55, 97, 53, 50, 48, 48, 97, 53, 98, 49, 53, 55, 102, 56, 48, 51, 54, 51, 97,
       54, 50, 49, 100, 101, 101, 53, 57, 49, 102, 56, 51, 98, 102, 55, 98, 48, 97, 51,
       97, 56, 57, 53, 53, 97, 102>>,
       <<75, 48, 100, 50, 49, 91, 45, 61, 37, 82, 101, 113, 54, 105, 76, 102, 59, 58,
       63, 76>>,
       <<50>>,
       <<50, 48>>>>,
     <<<<102, 50, 99, 57, 99, 48, 54, 99, 52, 56, 102, 57, 102, 56, 56, 98, 53, 97, 52,
       55, 98, 51, 101, 50, 54, 102, 49, 56, 50, 55, 51, 51, 51, 53, 48, 54, 51, 52, 49,
       100, 100, 52, 54, 57, 102, 52, 55, 53, 101, 98, 100, 53, 99, 54, 50, 101, 54, 56,
       99, 49, 52, 48, 51, 49>>,
       <<117, 34, 68, 50, 89, 84, 50, 102, 53, 87, 66, 35, 102, 68, 74, 62, 106, 51,
       101, 126, 115, 44, 86, 39, 39, 72, 87, 63, 58, 40>>,
       <<51>>,
       <<51, 48>>>>,
     <<<<101, 57, 56, 57, 99, 101, 51, 53, 57, 52, 53, 97, 98, 97, 101, 56, 56, 56, 101,
       99, 97, 50, 52, 57, 98, 49, 98, 102, 56, 97, 52, 48, 57, 56, 100, 100, 102, 101,
       51, 54, 57, 57, 99, 52, 54, 50, 100, 97, 97, 102, 99, 102, 54, 52, 53, 102, 48,
       49, 99, 55, 48, 56, 57, 99>>,
       <<84, 114, 101, 54, 45, 58, 53, 50, 58, 81, 77, 77, 57, 55, 61, 44, 41, 91, 90,
       90, 95, 102, 123, 37, 81, 72, 96, 76, 62, 63, 101, 117, 46, 123, 66, 34, 40, 65,
       104, 84>>,
       <<52>>,
       <<52, 48>>>>}

\* the two cases of integration_test1: user_id, master password, service_id,
\* generation, preset indices, password_length, and the password the test asserts
IntegrationCases ==
    {<<<<69, 120, 97, 109, 112, 108, 101, 32, 69, 108, 101, 111, 110, 111, 114, 97>>,
       <<93, 108, 69, 126, 87, 69, 120, 90, 52, 54, 56, 116, 121, 123, 73, 53, 109, 116,
       103, 91>>,
       <<69, 120, 97, 109, 112, 108, 101, 32, 83, 101, 114, 118, 105, 99, 101, 32, 78,
       97, 109, 101>>,
       <<49>>,
       <<0, 1, 2, 3>>,
       <<50, 48>>,
       <<49, 64, 77, 87, 116, 65, 65, 113, 90, 48, 112, 62, 59, 59, 121, 64, 122, 90, 54,
       100>>>>,
     <<<<93, 108, 69, 126, 87, 69, 120, 90, 52, 54, 56, 116, 121, 123, 73, 53, 109, 116,
       103, 91>>,
       <<101, 126, 122, 91, 67, 101, 100, 49, 48, 115, 68, 89, 124, 86, 82, 65, 50, 52,
       81, 51, 106, 41, 55, 46, 66, 46, 109, 118, 117, 52, 59, 81, 70, 111, 61, 38, 55,
       64, 45, 68>>,
       <<43, 98, 56, 82, 126, 63, 103, 86, 50, 124, 43, 48, 103, 116, 81, 60, 81, 69,
       118, 60>>,
       <<49, 48, 48>>,
       <<0, 1, 2, 3>>,
       <<54, 52>>,
       <<55, 111, 94, 113, 106, 70, 34, 100, 70, 112, 88, 59, 115, 112, 44, 56, 98, 119, 69,
       35, 43, 99, 38, 70, 82, 73, 68, 85, 102, 77, 96, 111, 44, 49, 101, 125, 81, 50, 75,
       123, 43, 109, 99, 37, 73, 58, 126, 118, 86, 100, 50, 117, 36, 86, 38, 61, 95, 60, 92,
       110, 123, 77, 45, 45>>>>}

\* the six inputs of each case
IntegrationInputs ==
    {<<c[1], c[2], c[3], c[4], c[5], c[6]>> : c \in IntegrationCases}

IdInputs ==
    {FillLetters(n) : n \in 0..MaxIdLen} \cup {FillDigits(n) : n \in 0..MaxIdLen}
    \cup {VectorUserID, VectorMasterPassword, Utf8Id}

PasswordInputs == {VectorMasterPassword, FillLetters(MinIdLength)}

\* "00", "ff", "7A", "+f", "zz" and one two-byte character
HexWindows == {<<48, 48>>, <<102, 102>>, <<55, 65>>, <<43, 102>>, <<122, 122>>, <<195, 169>>}

\* a &str is valid UTF-8: here, every lead byte 0xC3 is followed by its continuation
\* byte and every continuation byte follows a lead byte
IsUtf8(s) ==
    \A i \in 1..Len(s) :
        /\ s[i] = 195 => i < Len(s) /\ s[i + 1] = 169
        /\ s[i] = 169 => i > 1 /\ s[i - 1] = 195

HexInputs ==
    {s \in UNION {
        {Repeat(w, n),
         Append(Repeat(w, n), 48),
         Overwrite(Repeat(<<48, 48>>, n), 2 * n - 1, w),
         Overwrite(Repeat(<<48, 48>>, n), 2, w)} :
        w \in HexWindows, n \in 0..MaxHexWindows} : IsUtf8(s)}
    \cup {bytes_to_hex(VectorMasterSecret), bytes_to_hex(VectorServiceSecret),
          bytes_to_hex([i \in 1..64 |-> i - 1])}

\* decimal numbers up to MaxLengthInput, and text that is no plain number
MaxLengthInput == 300

LengthInputs ==
    {to_string(n) : n \in 0..MaxLengthInput}
    \cup {<<43>> \o to_string(n) : n \in {0, 7, 64, 65}}
    \cup {<<45>> \o to_string(n) : n \in {0, 1, 64}}
    \cup {<<48, 48>> \o to_string(n) : n \in {0, 7, 64, 65, 256}}
    \cup {<<>>, <<43>>, <<45>>, <<32, 53>>, <<53, 32>>, <<97, 98, 99>>, <<49, 101, 49>>,
          <<54, 46, 48>>, <<48, 120, 49, 48>>}

\* decimal numbers up to MaxGenerationInput, the numbers around usize::MAX, and
\* text that is no plain number
MaxGenerationInput == 150

GenerationInputs ==
    {to_string(n) : n \in 0..MaxGenerationInput}
    \cup {<<43>> \o to_string(n) : n \in {0, 1, 100}}
    \cup {<<45>> \o to_string(n) : n \in {0, 1, 100}}
    \cup {<<48, 48>> \o to_string(n) : n \in {0, 1, 100}}
    \cup {UsizeMaxDigits, <<43>> \o UsizeMaxDigits, <<45>> \o UsizeMaxDigits,
          <<48, 48, 48>> \o UsizeMaxDigits,
          Overwrite(UsizeMaxDigits, 20, <<52>>), Overwrite(UsizeMaxDigits, 20, <<54>>),
          Overwrite(UsizeMaxDigits, 1, <<50>>), Overwrite(UsizeMaxDigits, 2, <<57>>),
          Overwrite(UsizeMaxDigits, 1, <<48>>), Append(UsizeMaxDigits, 48),
          SubSeq(UsizeMaxDigits, 1, 19), Repeat(<<57>>, 19), Repeat(<<57>>, 20),
          Repeat(<<48>>, 25), Append(Repeat(<<48>>, 25), 49)}
    \cup {<<>>, <<43>>, <<45>>, <<32, 53>>, <<53, 32>>, <<97, 98, 99>>, <<49, 101, 49>>,
          <<54, 46, 48>>, <<48, 120, 49, 48>>, <<49, 95, 48>>, <<43, 43, 49>>}

\* index lists of up to MaxIndexListLen indices in 0..MaxIndex; 0..3 have a preset
MaxIndexListLen == 3

MaxIndex == 4

IndexLists == UNION {[1..n -> 0..MaxIndex] : n \in 0..MaxIndexListLen}

\* byte sequences of 0..MaxBytesLen bytes: every single byte, arithmetic
\* progressions modulo 256, and the sequences of the tests of utils.rs
MaxBytesLen == 40

ByteInputs ==
    {<<v>> : v \in 0..255}
    \cup {[i \in 1..n |-> (i * k + 250) % 256] : n \in 0..MaxBytesLen, k \in {0, 1, 16, 37}}
    \cup {<<0, 0, 0, 0, 0, 255, 255, 255, 255, 255>>,
          SPECIAL_CHARS \o SMALL_LETTERS \o NUMBERS \o CAPITAL_LETTERS,
          VectorMasterSecret, VectorServiceSecret}

\* user ids whose salts are compared: letters and digits of MinIdLength..MaxSaltIdLen
\* bytes (each a prefix of the next), a suffix, ids that begin with digits, among
\* them the salt pre-image of another id, ids with a space at either end, and ids
\* of 99 and 100 bytes, where the length prefix gains a digit
MaxSaltIdLen == 12

SaltIds ==
    {FillLetters(n) : n \in MinIdLength..MaxSaltIdLen}
    \cup {FillDigits(n) : n \in MinIdLength..MaxSaltIdLen}
    \cup {Tail(FillLetters(9)), <<56>> \o FillLetters(8), <<57, 56>> \o FillLetters(8),
          <<49, 48>> \o FillLetters(8), <<48>> \o FillDigits(9),
          Append(FillLetters(8), 32), <<32>> \o FillLetters(8),
          VectorUserID, Utf8Id,
          FillDigits(99), FillDigits(100), <<48>> \o FillDigits(99)}

\* service ids, password lengths and generations whose messages are compared
PairServiceIDs == {<<>>, <<48>>, <<97>>, <<49, 50, 51, 52, 53, 54, 55, 56, 57, 48>>}

PairLengths == {to_string(n) : n \in {1, 2, 11, 12, MaxPasswordLength}}

PairGenerations ==
    {to_string(n) : n \in {1, 2, 11, 12, 111}}
    \cup {<<50, 51, 52, 53, 54, 55, 56, 57, 48, 49, 49>>}

ServiceTriples ==
    [service_id : PairServiceIDs, password_length : PairLengths,
     generation : PairGenerations]

(***************************************************************************)
(* Unit level: one constructor or helper applied to one input.             *)
(***************************************************************************)
NoCall == [fn |-> "none", arg |-> <<>>, ret |-> NoValue]

CallUserIDFromStr ==
    /\ call.fn = "none"
    /\ \E s \in IdInputs :
           /\ call' = [fn |-> "UserID::from_str", arg |-> s, ret |-> UserID_from_str(s)]
           /\ UNCHANGED pipelineVars

CallMasterPasswordPlainFromStr ==
    /\ call.fn = "none"
    /\ \E s \in IdInputs :
           /\ call' = [fn |-> "MasterPasswordPlain::from_str", arg |-> s,
                       ret |-> MasterPasswordPlain_from_str(s)]
           /\ UNCHANGED pipelineVars

CallPasswordLengthFromStr ==
    /\ call.fn = "none"
    /\ \E s \in LengthInputs :
           /\ call' = [fn |-> "PasswordLength::from_str", arg |-> s,
                       ret |-> PasswordLength_from_str(s)]
           /\ UNCHANGED pipelineVars

\* MasterSecret::new on a UserID and a MasterPasswordPlain that were constructed
CallMasterSecretNew ==
    /\ call.fn = "none"
    /\ \E a \in (IdInputs \X PasswordInputs) \cup MasterSecretVectors :
           /\ UserID_from_str(a[1]).ok
           /\ MasterPasswordPlain_from_str(a[2]).ok
           /\ call' = [fn |-> "MasterSecret::new", arg |-> a,
                       ret |-> MasterSecret_new(UserID_from_str(a[1]).val,
                                                MasterPasswordPlain_from_str(a[2]).val)]
           /\ UNCHANGED pipelineVars

CallMasterSecretFromStr ==
    /\ call.fn = "none"
    /\ \E s \in HexInputs :
           /\ call' = [fn |-> "MasterSecret::from_str", arg |-> s,
                       ret |-> MasterSecret_from_str(s)]
           /\ UNCHANGED pipelineVars

CallServiceSecretFromStr ==
    /\ call.fn = "none"
    /\ \E s \in HexInputs :
           /\ call' = [fn |-> "ServiceSecret::from_str", arg |-> s,
                       ret |-> ServiceSecret_from_str(s)]
           /\ UNCHANGED pipelineVars

\* ServiceSecret::new as the unit test calls it: the master secret from its hex form
CallServiceSecretNew ==
    /\ call.fn = "none"
    /\ \E a \in ({bytes_to_hex(VectorMasterSecret), Repeat(<<43, 102>>, 32)}
                 \X {VectorUserID, <<>>}
                 \X {<<49>>, <<49, 48, 48>>}
                 \X {to_string(1), to_string(10), to_string(MaxPasswordLength)})
                \cup ServiceSecretVectors :
           /\ MasterSecret_from_str(a[1]).ok
           /\ Generation_from_str(a[3]).ok
           /\ PasswordLength_from_str(a[4]).ok
           /\ call' = [fn |-> "ServiceSecret::new", arg |-> a,
                       ret |-> ServiceSecret_new(MasterSecret_from_str(a[1]).val,
                                                 ServiceID_from_str(a[2]).val,
                                                 Generation_from_str(a[3]).val,
                                                 PasswordLength_from_str(a[4]).val)]
           /\ UNCHANGED pipelineVars

CallGenerationFromStr ==
    /\ call.fn = "none"
    /\ \E s \in GenerationInputs :
           /\ call' = [fn |-> "Generation::from_str", arg |-> s,
                       ret |-> Generation_from_str(s)]
           /\ UNCHANGED pipelineVars

CallCharSetTryFrom ==
    /\ call.fn = "none"
    /\ \E value \in IndexLists :
           /\ call' = [fn |-> "CharSet::try_from", arg |-> value,
                       ret |-> CharSet_try_from(value)]
           /\ UNCHANGED pipelineVars

\* Utils::hex_to_bytes applied to what Utils::bytes_to_hex returned
CallHexRoundTrip ==
    /\ call.fn = "none"
    /\ \E b \in ByteInputs :
           /\ call' = [fn |-> "Utils::bytes_to_hex", arg |-> b,
                       ret |-> [hex |-> bytes_to_hex(b),
                                back |-> hex_to_bytes(bytes_to_hex(b))]]
           /\ UNCHANGED pipelineVars

\* MasterSecret::new for two different user ids and one master password: the salt
\* each call builds, and what it returns
CallMasterSecretNewTwice ==
    /\ call.fn = "none"
    /\ \E u1 \in SaltIds, u2 \in SaltIds :
           /\ u1 # u2
           /\ UserID_from_str(u1).ok
           /\ UserID_from_str(u2).ok
           /\ LET a == UserID_from_str(u1).val
                  b == UserID_from_str(u2).val
                  p == MasterPasswordPlain_from_str(VectorMasterPassword).val
              IN call' = [fn |-> "MasterSecret::new, twice", arg |-> <<u1, u2>>,
                          ret |-> [salt_input |-> <<MasterSecret_salt_input(a),
                                                    MasterSecret_salt_input(b)>>,
                                   salt |-> <<MasterSecret_salt(a), MasterSecret_salt(b)>>,
                                   secret |-> <<MasterSecret_new(a, p),
                                                MasterSecret_new(b, p)>>]]
           /\ UNCHANGED pipelineVars

\* ServiceSecret::new under one master secret for two different triples of service
\* id, password length and generation: the message each call builds, and what it
\* returns
CallServiceSecretNewTwice ==
    /\ call.fn = "none"
    /\ \E t1 \in ServiceTriples, t2 \in ServiceTriples :
           /\ t1 # t2
           /\ \A t \in {t1, t2} : /\ Generation_from_str(t.generation).ok
                                  /\ PasswordLength_from_str(t.password_length).ok
           /\ LET salt_input(t) ==
                      ServiceSecret_salt_input(ServiceID_from_str(t.service_id).val,
                                               Generation_from_str(t.generation).val,
                                               PasswordLength_from_str(t.password_length).val)
                  salt(t) ==
                      ServiceSecret_salt(ServiceID_from_str(t.service_id).val,
                                         Generation_from_str(t.generation).val,
                                         PasswordLength_from_str(t.password_length).val)
                  secret(t) ==
                      ServiceSecret_new(VectorMasterSecret,
                                        ServiceID_from_str(t.service_id).val,
                                        Generation_from_str(t.generation).val,
                                        PasswordLength_from_str(t.password_length).val)
              IN call' = [fn |-> "ServiceSecret::new, twice", arg |-> <<t1, t2>>,
                          ret |-> [salt_input |-> <<salt_input(t1), salt_input(t2)>>,
                                   salt |-> <<salt(t1), salt(t2)>>,
                                   secret |-> <<secret(t1), secret(t2)>>]]
           /\ UNCHANGED pipelineVars

\* the call's result is consumed
CallReturn ==
    /\ call.fn # "none"
    /\ call' = NoCall
    /\ UNCHANGED pipelineVars

NextCall ==
    \/ CallReturn
    \/ CallUserIDFromStr
    \/ CallMasterPasswordPlainFromStr
    \/ CallPasswordLengthFromStr
    \/ CallMasterSecretNew
    \/ CallMasterSecretFromStr
    \/ CallServiceSecretFromStr
    \/ CallServiceSecretNew
    \/ CallGenerationFromStr
    \/ CallCharSetTryFrom
    \/ CallHexRoundTrip
    \/ CallMasterSecretNewTwice
    \/ CallServiceSecretNewTwice

(***************************************************************************)
(* lib.rs: DerivePassRunner::run, one stage per step.                      *)
(***************************************************************************)
NoInput ==
    [kind |-> "none", user_id |-> <<>>, master_password_plain |-> <<>>,
     service_id |-> <<>>, generation |-> <<>>, char_set |-> <<>>,
     password_length |-> 0]

NoSeen == [input |-> NoInput, result |-> NoValue, between |-> 0]

RunUserIDs == {VectorUserID, FillLetters(MaxIdLen - 1), FillLetters(MaxIdLen)}

RunServiceIDs == {VectorUserID, <<>>}

RunGenerations == {<<49>>, <<49, 48, 48>>}

RunCharSets == {<<0>>, <<0, 1, 2, 3>>}

RunLengths == {to_string(10), to_string(MaxPasswordLength)}

\* user_id, master password, service_id, generation, preset indices, password_length
RunInputs ==
    (RunUserIDs \X PasswordInputs \X RunServiceIDs \X RunGenerations \X RunCharSets
     \X RunLengths) \cup IntegrationInputs

Init ==
    /\ pc = "idle"
    /\ input = NoInput
    /\ master_secret = NoValue
    /\ service_secret = NoValue
    /\ result = NoValue
    /\ trace = <<>>
    /\ calls = 0
    /\ seen = NoSeen
    /\ call = NoCall

\* the caller builds the six validated inputs (a UserInputProvider) and calls run
RunCall ==
    /\ pc = "idle"
    /\ calls < MaxCalls
    /\ \E a \in RunInputs :
        /\ UserID_from_str(a[1]).ok
        /\ MasterPasswordPlain_from_str(a[2]).ok
        /\ Generation_from_str(a[4]).ok
        /\ CharSet_try_from(a[5]).ok
        /\ PasswordLength_from_str(a[6]).ok
        /\ input' = [kind |-> "run",
                     user_id |-> UserID_from_str(a[1]).val,
                     master_password_plain |-> MasterPasswordPlain_from_str(a[2]).val,
                     service_id |-> ServiceID_from_str(a[3]).val,
                     generation |-> Generation_from_str(a[4]).val,
                     char_set |-> CharSet_try_from(a[5]).val,
                     password_length |-> PasswordLength_from_str(a[6]).val]
        /\ pc' = "s1"
        /\ calls' = calls + 1
        /\ trace' = <<>>
        /\ UNCHANGED <<master_secret, service_secret, result, seen, call>>

\* a runner that goes on to the next stage whatever MasterSecret::new returned
RunS1_continue ==
    /\ pc = "s1"
    /\ master_secret' = MasterSecret_new(input.user_id, input.master_password_plain)
    /\ trace' = Append(trace, "S1")
    /\ pc' = "s2"
    /\ UNCHANGED <<input, service_secret, result, calls, seen, call>>

\* MasterSecret::new(user_id, master_password_plain)?
RunS1 ==
    /\ pc = "s1"
    /\ master_secret' = MasterSecret_new(input.user_id, input.master_password_plain)
    /\ trace' = Append(trace, "S1")
    /\ IF master_secret'.ok
       THEN pc' = "s2" /\ UNCHANGED result
       ELSE pc' = "done" /\ result' = master_secret'
    /\ UNCHANGED <<input, service_secret, calls, seen, call>>

\* ServiceSecret::new(&master, service_id, generation, password_length)?
RunS2 ==
    /\ pc = "s2"
    /\ service_secret' = ServiceSecret_new(master_secret.val, input.service_id,
                                           input.generation, input.password_length)
    /\ trace' = Append(trace, "S2")
    /\ IF service_secret'.ok
       THEN pc' = "s3" /\ UNCHANGED result
       ELSE pc' = "done" /\ result' = service_secret'
    /\ UNCHANGED <<input, master_secret, calls, seen, call>>

\* DerivedPass::new(&service, char_set, password_length)?, wrapped in Ok
RunS3 ==
    /\ pc = "s3"
    /\ result' = DerivedPass_new(service_secret.val, input.char_set,
                                 input.password_length)
    /\ trace' = Append(trace, "S3")
    /\ pc' = "done"
    /\ UNCHANGED <<input, master_secret, service_secret, calls, seen, call>>

\* run returns: its locals are dropped.  The history may remember this invocation;
\* if it keeps an earlier one, it counts the invocations on other inputs since.
RunReturn ==
    \E remember \in BOOLEAN :
        /\ pc = "done"
        /\ seen' = IF remember /\ input.kind = "run"
                   THEN [input |-> input, result |-> result, between |-> 0]
                   ELSE IF input.kind = "run" /\ seen # NoSeen /\ input # seen.input
                        THEN [seen EXCEPT !.between = @ + 1]
                        ELSE seen
        /\ pc' = "idle"
        /\ input' = NoInput
        /\ master_secret' = NoValue
        /\ service_secret' = NoValue
        /\ result' = NoValue
        /\ trace' = <<>>
        /\ UNCHANGED <<calls, call>>

Next == RunCall \/ RunS1 \/ RunS2 \/ RunS3 \/ RunReturn

(***************************************************************************)
(* Stage S3 on its own, as the unit tests of derived_pass.rs run it: the   *)
(* service secret comes from ServiceSecret::from_str or ServiceSecret::new,*)
(* the CharSet from CharSet::try_from and the PasswordLength from          *)
(* PasswordLength::from_str.                                               *)
(***************************************************************************)
S3CharSets ==
    {<<>>, <<0, 1, 2, 3>>} \cup {<<a>> : a \in 0..4} \cup {<<a, b>> : a, b \in 0..4}

S3Input(char_set, password_length) ==
    [NoInput EXCEPT !.kind = "s3", !.char_set = char_set,
                    !.password_length = password_length]

TestFromStr ==
    /\ pc = "idle"
    /\ \E h \in {x \in HexInputs : ServiceSecret_from_str(x).ok},
          c \in {x \in S3CharSets : CharSet_try_from(x).ok},
          l \in {x \in LengthInputs : PasswordLength_from_str(x).ok} :
           /\ service_secret' = ServiceSecret_from_str(h)
           /\ input' = S3Input(CharSet_try_from(c).val, PasswordLength_from_str(l).val)
           /\ pc' = "s3"
           /\ UNCHANGED <<master_secret, result, trace, calls, seen, call>>

TestNew ==
    /\ pc = "idle"
    /\ \E m \in {bytes_to_hex(VectorMasterSecret), Repeat(<<43, 102>>, 32)},
          s \in {VectorUserID},
          g \in {<<49>>},
          c \in {x \in S3CharSets : CharSet_try_from(x).ok},
          l \in {x \in LengthInputs : PasswordLength_from_str(x).ok} :
           /\ MasterSecret_from_str(m).ok
           /\ Generation_from_str(g).ok
           /\ service_secret' = ServiceSecret_new(MasterSecret_from_str(m).val,
                                                  ServiceID_from_str(s).val,
                                                  Generation_from_str(g).val,
                                                  PasswordLength_from_str(l).val)
           /\ input' = S3Input(CharSet_try_from(c).val, PasswordLength_from_str(l).val)
           /\ pc' = "s3"
           /\ UNCHANGED <<master_secret, result, trace, calls, seen, call>>

NextS3 == TestFromStr \/ TestNew \/ RunS3 \/ RunReturn

SpecS3 == Init /\ [][NextS3]_vars

Spec == Init /\ [][Next]_vars

SpecCall == Init /\ [][NextCall]_vars

(***************************************************************************)
(* Properties.                                                             *)
(***************************************************************************)
Range(s) == {s[i] : i \in 1..Len(s)}

Stages == <<"S1", "S2", "S3">>

IsPrefix(a, b) == Len(a) <= Len(b) /\ \A i \in 1..Len(a) : a[i] = b[i]

\* the UserInputProvider that RunCall builds from the six inputs of a case
ProviderOf(c) ==
    [kind |-> "run",
     user_id |-> UserID_from_str(c[1]).val,
     master_password_plain |-> MasterPasswordPlain_from_str(c[2]).val,
     service_id |-> ServiceID_from_str(c[3]).val,
     generation |-> Generation_from_str(c[4]).val,
     char_set |-> CharSet_try_from(c[5]).val,
     password_length |-> PasswordLength_from_str(c[6]).val]

C2_Length ==
    (pc = "done" /\ input.kind = "run") =>
        \/ ~result.ok /\ result.val = <<>>
        \/ result.ok /\ Len(result.val) = input.password_length

\* run has returned a password of the largest length
C2_Witness ==
    /\ pc = "done"
    /\ input.kind = "run"
    /\ result.ok
    /\ input.password_length = MaxPasswordLength
    /\ Len(result.val) = MaxPasswordLength

\* C3 (alphabet containment): every character of a password that run, or
\* DerivedPass::new on its own, returns is a character of the CharSet given.
C3_AlphabetContainment ==
    (pc = "done" /\ result.ok) => Range(result.val) \subseteq Range(input.char_set)

\* run has returned a password over the small letters only
C3_Witness ==
    /\ pc = "done"
    /\ input.kind = "run"
    /\ result.ok
    /\ input.char_set = SMALL_LETTERS
    /\ Len(result.val) = MaxPasswordLength

\* the test secret of derived_pass.rs: bytes 0x00 .. 0x3F
CountingSecret == [i \in 1..64 |-> i - 1]

\* C4 (S3 mapping): DerivedPass::new returns the string whose i-th character is
\* A[b_i mod |A|], bytes taken in position order; on the bytes 0x00..0x3F and one
\* preset the password is that preset repeated from its first character.
C4_S3Mapping ==
    (pc = "done" /\ input.kind = "s3") =>
        /\ result.ok
        /\ Len(result.val) = input.password_length
        /\ \A i \in 0..(input.password_length - 1) :
               result.val[i + 1] =
                   input.char_set[(service_secret.val[i + 1] % Len(input.char_set)) + 1]
        /\ \A k \in 1..4 :
               (service_secret.val = CountingSecret /\ input.char_set = Presets[k]) =>
                   \A i \in 0..(input.password_length - 1) :
                       result.val[i + 1] = Presets[k][(i % Len(Presets[k])) + 1]

\* the numbers preset on the counting secret, 11 characters: "01234567890"
C4_Witness ==
    /\ pc = "done"
    /\ input.kind = "s3"
    /\ service_secret.val = CountingSecret
    /\ input.char_set = NUMBERS
    /\ result.ok
    /\ result.val = <<48, 49, 50, 51, 52, 53, 54, 55, 56, 57, 48>>

\* C5 (S1 total on valid input), as claimed: on every accepted UserID and
\* MasterPasswordPlain MasterSecret::new returns 32 bytes, and its only failure
\* is DerivePassError::Secret.
C5_S1TotalAsClaimed ==
    call.fn = "MasterSecret::new" =>
        \/ call.ret.ok /\ Len(call.ret.val) = 32
        \/ ~call.ret.ok /\ call.ret.err = "DerivePassError" /\ call.ret.msg = "Secret"

\* C6 (error propagation): the stages run in the order S1, S2, S3, each at most
\* once; a failing stage ends the invocation, and what run returns is that stage's
\* error as it is, with no secret or password value.
C6_ErrorPropagation ==
    input.kind = "run" =>
        /\ IsPrefix(trace, Stages)
        /\ (~master_secret.ok /\ Len(trace) >= 1) =>
               /\ pc = "done"
               /\ trace = <<"S1">>
               /\ result = master_secret
               /\ result.val = <<>>
               /\ service_secret = NoValue
        /\ (master_secret.ok /\ ~service_secret.ok /\ Len(trace) >= 2) =>
               /\ pc = "done"
               /\ trace = <<"S1", "S2">>
               /\ result = service_secret
               /\ result.val = <<>>
        /\ (pc = "done" /\ result.ok) =>
               /\ trace = Stages
               /\ master_secret.ok
               /\ service_secret.ok

\* S1 has failed and run is about to return its error
C6_Witness ==
    /\ pc = "done"
    /\ input.kind = "run"
    /\ ~master_secret.ok
    /\ trace = <<"S1">>
    /\ result.err = "password_hash::Error"

\* C7 (I1): a MasterSecret holds 32 bytes and a ServiceSecret 64 bytes, whichever
\* constructor built it; from_str rejects a string whose bytes would be of another
\* length.
C7_SecretLengths ==
    /\ (call.fn \in {"MasterSecret::new", "MasterSecret::from_str"} /\ call.ret.ok) =>
           Len(call.ret.val) = 32
    /\ (call.fn \in {"ServiceSecret::new", "ServiceSecret::from_str"} /\ call.ret.ok) =>
           Len(call.ret.val) = 64
    /\ (call.fn = "MasterSecret::from_str" /\ Len(call.arg) # 2 * 32) => ~call.ret.ok
    /\ (call.fn = "ServiceSecret::from_str" /\ Len(call.arg) # 2 * 64) => ~call.ret.ok

\* MasterSecret::from_str has accepted a 64-character string holding a '+' window
C7_Witness ==
    /\ call.fn = "MasterSecret::from_str"
    /\ call.ret.ok
    /\ 43 \in Range(call.arg)
    /\ Len(call.ret.val) = 32

\* C8 (CharError unreachable): DerivedPass::new on a ServiceSecret, a CharSet and a
\* PasswordLength that their constructors returned never fails.
C8_NoCharError ==
    pc = "done" => (result.ok /\ result.err # "DerivePassError")

\* S3 has run on a secret from ServiceSecret::from_str with the largest length
C8_Witness ==
    /\ pc = "done"
    /\ input.kind = "s3"
    /\ input.password_length = MaxPasswordLength
    /\ Len(service_secret.val) = MaxPasswordLength
    /\ service_secret.val = CountingSecret
    /\ result.ok

IsDecimal(s) == Len(s) >= 1 /\ \A i \in 1..Len(s) : s[i] >= 48 /\ s[i] <= 57

\* the text is a decimal integer with an optional sign
DenotesInteger(s) ==
    \/ IsDecimal(s)
    \/ Len(s) >= 2 /\ s[1] \in {43, 45} /\ IsDecimal(Tail(s))

RECURSIVE DecimalValue(_)
DecimalValue(s) ==
    IF Len(s) = 0 THEN 0
    ELSE DecimalValue(SubSeq(s, 1, Len(s) - 1)) * 10 + (s[Len(s)] - 48)

DenotedValue(s) ==
    IF s[1] = 45 THEN 0 - DecimalValue(Tail(s))
    ELSE IF s[1] = 43 THEN DecimalValue(Tail(s))
    ELSE DecimalValue(s)

\* C9 (PasswordLength validation): from_str accepts exactly the texts that denote
\* an integer in 1..64 and stores that integer; everything else is a UserInputError.
C9_PasswordLengthValidation ==
    call.fn = "PasswordLength::from_str" =>
        /\ call.ret.ok <=>
               (DenotesInteger(call.arg) /\ DenotedValue(call.arg) \in 1..64)
        /\ call.ret.ok => call.ret.val = DenotedValue(call.arg)
        /\ ~call.ret.ok => (call.ret.err = "UserInputError" /\ call.ret.val = <<>>)

\* "256", which does not fit a byte, has been rejected
C9_Witness ==
    /\ call.fn = "PasswordLength::from_str"
    /\ call.arg = <<50, 53, 54>>
    /\ ~call.ret.ok
    /\ call.ret.err = "UserInputError"

\* C10 (UserID and MasterPasswordPlain validation): from_str accepts exactly the
\* strings of at least 8 bytes, whatever their length above that, and stores them
\* as they are; shorter ones are a UserInputError.
C10_IdValidation ==
    call.fn \in {"UserID::from_str", "MasterPasswordPlain::from_str"} =>
        /\ call.ret.ok <=> Len(call.arg) >= 8
        /\ call.ret.ok => call.ret.val = call.arg
        /\ ~call.ret.ok => (call.ret.err = "UserInputError" /\ call.ret.val = <<>>)

\* a UserID of exactly 8 bytes has been accepted
C10_Witness ==
    /\ call.fn = "UserID::from_str"
    /\ Len(call.arg) = 8
    /\ call.ret.ok
    /\ call.ret.val = call.arg

\* the digits of a text after its optional '+'
Unsigned(s) == IF Len(s) >= 1 /\ s[1] = 43 THEN Tail(s) ELSE s

\* the digits from the first one that is not '0' on; empty for zero
Significant(d) ==
    LET nz == {i \in 1..Len(d) : d[i] # 48}
    IN IF nz = {} THEN <<>>
       ELSE SubSeq(d, CHOOSE i \in nz : \A j \in nz : i <= j, Len(d))

\* the number written by the significant digits d is at most 2^64 - 1
FitsWord(d) ==
    \/ Len(d) < Len(UsizeMaxDigits)
    \/ /\ Len(d) = Len(UsizeMaxDigits)
       /\ \A i \in 1..Len(d) :
              d[i] > UsizeMaxDigits[i] => \E j \in 1..(i - 1) : d[j] < UsizeMaxDigits[j]

\* C11 (Generation validation): from_str accepts exactly the texts that denote a
\* non-negative integer (digits, with an optional '+') whose value is at least 1
\* and fits the 64-bit machine word, and stores that value; 0, a text with '-',
\* text that is no number and values above 2^64 - 1 are a UserInputError.
C11_GenerationValidation ==
    call.fn = "Generation::from_str" =>
        LET d == Unsigned(call.arg)
        IN /\ call.ret.ok <=>
                  (IsDecimal(d) /\ Significant(d) # <<>> /\ FitsWord(Significant(d)))
           /\ call.ret.ok => call.ret.val = Significant(d)
           /\ (call.ret.ok /\ Len(d) <= 9) =>
                  (DecimalValue(d) >= 1 /\ call.ret.val = to_string(DecimalValue(d)))
           /\ ~call.ret.ok => (call.ret.err = "UserInputError" /\ call.ret.val = <<>>)

\* 2^64, one more than the machine word holds, has been rejected
C11_Witness ==
    /\ call.fn = "Generation::from_str"
    /\ call.arg = Overwrite(UsizeMaxDigits, 20, <<54>>)
    /\ ~call.ret.ok
    /\ call.ret.err = "UserInputError"

\* C12 (CharSet rejection): try_from returns a UserInputError and no CharSet for
\* the empty index list and for every list holding an index other than 0, 1, 2, 3,
\* wherever that index stands; a CharSet that is returned has a non-empty alphabet.
C12_CharSetRejection ==
    call.fn = "CharSet::try_from" =>
        /\ (call.arg = <<>> \/ \E i \in 1..Len(call.arg) : call.arg[i] \notin {0, 1, 2, 3})
               => (~call.ret.ok /\ call.ret.err = "UserInputError" /\ call.ret.val = <<>>)
        /\ call.ret.ok => Len(call.ret.val) >= 1

\* a list whose last index has no preset, after two that have, has been rejected
C12_Witness ==
    /\ call.fn = "CharSet::try_from"
    /\ call.arg = <<0, 1, 4>>
    /\ ~call.ret.ok
    /\ call.ret.err = "UserInputError"

\* the preset an index selects
PresetOf(i) ==
    CASE i = 0 -> SMALL_LETTERS
      [] i = 1 -> CAPITAL_LETTERS
      [] i = 2 -> NUMBERS
      [] i = 3 -> SPECIAL_CHARS

\* the blocks of an index list one after the other, first index first
RECURSIVE Blocks(_)
Blocks(l) == IF l = <<>> THEN <<>> ELSE PresetOf(Head(l)) \o Blocks(Tail(l))

IsValidIndexList(l) == l # <<>> /\ \A i \in 1..Len(l) : l[i] \in {0, 1, 2, 3}

\* what try_from returns for each index list tried
CharSetOf == [l \in IndexLists |-> CharSet_try_from(l)]

\* C13 (CharSet composition): for a non-empty list of indices in 0..3, try_from
\* returns the presets' blocks in list order, a block for every selection (so a
\* repeated index gives a repeated block); no other valid index list gives the
\* same alphabet.
C13_CharSetComposition ==
    (call.fn = "CharSet::try_from" /\ IsValidIndexList(call.arg)) =>
        /\ call.ret.ok
        /\ call.ret.val = Blocks(call.arg)
        /\ \A other \in IndexLists :
               (IsValidIndexList(other) /\ other # call.arg)
                   => (CharSetOf[other].ok /\ CharSetOf[other].val # call.ret.val)

\* [1,0,1]: capital letters, small letters, capital letters again
C13_Witness ==
    /\ call.fn = "CharSet::try_from"
    /\ call.arg = <<1, 0, 1>>
    /\ call.ret.ok
    /\ call.ret.val = CAPITAL_LETTERS \o SMALL_LETTERS \o CAPITAL_LETTERS

\* '0'..'9' or 'a'..'f'
IsLowerHex(c) == (c >= 48 /\ c <= 57) \/ (c >= 97 /\ c <= 102)

\* C14 (hex round trip): bytes_to_hex(b) has exactly 2*|b| characters, all of them
\* in 0-9a-f, and hex_to_bytes of it succeeds and gives b back.
C14_HexRoundTrip ==
    call.fn = "Utils::bytes_to_hex" =>
        /\ Len(call.ret.hex) = 2 * Len(call.arg)
        /\ \A i \in 1..Len(call.ret.hex) : IsLowerHex(call.ret.hex[i])
        /\ call.ret.back.ok
        /\ call.ret.back.val = call.arg

\* the bytes of the test can_bytes_to_hex: "0000000000ffffffffff", and back
C14_Witness ==
    /\ call.fn = "Utils::bytes_to_hex"
    /\ call.arg = <<0, 0, 0, 0, 0, 255, 255, 255, 255, 255>>
    /\ call.ret.hex = Repeat(<<48>>, 10) \o Repeat(<<102>>, 10)
    /\ call.ret.back.ok
    /\ call.ret.back.val = call.arg

\* C15 (single-field sensitivity of S2): two calls of ServiceSecret::new with the
\* same master secret and service id whose inputs differ in the generation only,
\* or in the password length only, build different strings LI || I || PL || G,
\* give HMAC different messages and return different service secrets.
C15_SingleFieldSensitivity ==
    call.fn = "ServiceSecret::new, twice" =>
        LET a == call.arg[1]
            b == call.arg[2]
        IN (/\ a.service_id = b.service_id
            /\ \/ a.generation # b.generation /\ a.password_length = b.password_length
               \/ a.generation = b.generation /\ a.password_length # b.password_length)
               => /\ call.ret.salt_input[1] # call.ret.salt_input[2]
                  /\ call.ret.salt[1] # call.ret.salt[2]
                  /\ call.ret.secret[1].ok /\ call.ret.secret[2].ok
                  /\ call.ret.secret[1].val # call.ret.secret[2].val

\* lengths 11 and 12 for one service id and generation 1: "01111" and "01121"
C15_Witness ==
    /\ call.fn = "ServiceSecret::new, twice"
    /\ call.arg[1] = [service_id |-> <<48>>, password_length |-> <<49, 49>>,
                      generation |-> <<49>>]
    /\ call.arg[2] = [service_id |-> <<48>>, password_length |-> <<49, 50>>,
                      generation |-> <<49>>]
    /\ call.ret.salt_input = <<<<49, 48, 49, 49, 49>>, <<49, 48, 49, 50, 49>>>>
    /\ call.ret.salt[1] # call.ret.salt[2]
    /\ call.ret.secret[1].val # call.ret.secret[2].val

\* C16 (S1 salt is unambiguous): two different valid user ids, whether one is a
\* prefix or a suffix of the other or begins with digits, get different strings
\* decimal(len(user_id)) || user_id and different base64 salts.
C16_SaltInjective ==
    call.fn = "MasterSecret::new, twice" =>
        /\ call.arg[1] # call.arg[2]
        /\ call.ret.salt_input[1] # call.ret.salt_input[2]
        /\ call.ret.salt[1] # call.ret.salt[2]
        /\ \A k \in {1, 2} :
               /\ IsPrefix(to_string(Len(call.arg[k])), call.ret.salt_input[k])
               /\ Len(call.ret.salt_input[k])
                      = Len(to_string(Len(call.arg[k]))) + Len(call.arg[k])
               /\ base64_decode(call.ret.salt[k]) = Ok(call.ret.salt_input[k])

\* an id and the id that is its salt pre-image: "bcdefghi" and "8bcdefghi"
C16_Witness ==
    /\ call.fn = "MasterSecret::new, twice"
    /\ call.arg[1] = FillLetters(8)
    /\ call.arg[2] = <<56>> \o FillLetters(8)
    /\ call.ret.salt_input[1] = call.arg[2]
    /\ call.ret.salt_input[2] = <<57, 56>> \o FillLetters(8)
    /\ call.ret.salt[1] # call.ret.salt[2]

\* C17 (S2 message is unambiguous), as claimed: two different valid triples of
\* service id, password length and generation, in whatever fields they differ,
\* get different strings LI || I || PL || G, different HMAC messages and so
\* different service secrets under one master secret.
C17_MessageInjectiveAsClaimed ==
    call.fn = "ServiceSecret::new, twice" =>
        /\ call.arg[1] # call.arg[2]
        /\ call.ret.salt_input[1] # call.ret.salt_input[2]
        /\ call.ret.salt[1] # call.ret.salt[2]
        /\ call.ret.secret[1] # call.ret.secret[2]
====
